---- MODULE Spec2Model ----
(***************************************************************************)
(* Model of src/monitor.py (MonitorApp): the all-hosts sweep               *)
(* (consultar_todos / _consultar_todos_worker / _consultar_todos_done),    *)
(* the per-host session store (session_cookies), the interactive login    *)
(* and logoff, refresh, clear_table and the counter parser (_parse_count). *)
(*                                                                         *)
(* The threads modelled are the Tk main thread (handlers, messageboxes and *)
(* the event loop) and the daemon worker threads started by                *)
(* consultar_todos.  A thread is split at its blocking calls               *)
(* (requests.get, microfocus_logon), at its messageboxes, and - for a      *)
(* worker - at every call into Tk (reading user_var or pass_var,           *)
(* self.after), which is carried out by the main thread when it next runs  *)
(* an event loop.                                                          *)
(***************************************************************************)
EXTENDS Integers, Sequences, FiniteSets, TLC

\* ---------------------------------------------------------------- bounds
\* The authenticator issues at most MaxTokens session tokens in a behaviour.
MaxTokens == 3
\* The user presses Logon, Logoff, Refrescar or Consultar todos at most
\* MaxPresses times in a behaviour.
MaxPresses == 2

\* ---------------------------------------------------------------- values
Hosts == {"h1", "h2"}
Regions == {"r1", "r2"}

\* Python None / a falsy cookie: tokens are numbered from 1 in issue order.
NoToken == 0

\* ------------------------------------------------------- python helpers
\* dict.get(k, default) on a dict modelled as a function with a finite domain
DictGet(d, k, default) == IF k \in DOMAIN d THEN d[k] ELSE default

\* d[k] = v on a dict modelled as a function with a finite domain
DictSet(d, k, v) == [x \in (DOMAIN d) \cup {k} |-> IF x = k THEN v ELSE d[x]]

\* the empty dict {}
EmptyDict == [x \in {} |-> 0]

RECURSIVE SumSeq(_)
SumSeq(s) == IF s = <<>> THEN 0 ELSE Head(s) + SumSeq(Tail(s))

RECURSIVE SumDict(_)
\* sum(d.values())
SumDict(d) ==
  IF DOMAIN d = {} THEN 0
  ELSE LET k == CHOOSE x \in DOMAIN d : TRUE
       IN d[k] + SumDict([x \in (DOMAIN d) \ {k} |-> d[x]])

\* ------------------------------------------------------- _parse_count
\* A text is a sequence of characters.  A character up to U+00FF is the
\* string made of it; a character beyond is the string that names its code
\* point, "U+" and four to six hexadecimal digits.
DigitChars == <<"0", "1", "2", "3", "4", "5", "6", "7", "8", "9">>

\* The decimal digits beyond ASCII (Unicode 14.0, the tables of the Python
\* 3.11 the program runs under): each row holds the digits 0 to 9 of one
\* script.
UnicodeDigitRows ==
  {
    <<"U+0660", "U+0661", "U+0662", "U+0663", "U+0664",
      "U+0665", "U+0666", "U+0667", "U+0668", "U+0669">>,
    <<"U+06F0", "U+06F1", "U+06F2", "U+06F3", "U+06F4",
      "U+06F5", "U+06F6", "U+06F7", "U+06F8", "U+06F9">>,
    <<"U+07C0", "U+07C1", "U+07C2", "U+07C3", "U+07C4",
      "U+07C5", "U+07C6", "U+07C7", "U+07C8", "U+07C9">>,
    <<"U+0966", "U+0967", "U+0968", "U+0969", "U+096A",
      "U+096B", "U+096C", "U+096D", "U+096E", "U+096F">>,
    <<"U+09E6", "U+09E7", "U+09E8", "U+09E9", "U+09EA",
      "U+09EB", "U+09EC", "U+09ED", "U+09EE", "U+09EF">>,
    <<"U+0A66", "U+0A67", "U+0A68", "U+0A69", "U+0A6A",
      "U+0A6B", "U+0A6C", "U+0A6D", "U+0A6E", "U+0A6F">>,
    <<"U+0AE6", "U+0AE7", "U+0AE8", "U+0AE9", "U+0AEA",
      "U+0AEB", "U+0AEC", "U+0AED", "U+0AEE", "U+0AEF">>,
    <<"U+0B66", "U+0B67", "U+0B68", "U+0B69", "U+0B6A",
      "U+0B6B", "U+0B6C", "U+0B6D", "U+0B6E", "U+0B6F">>,
    <<"U+0BE6", "U+0BE7", "U+0BE8", "U+0BE9", "U+0BEA",
      "U+0BEB", "U+0BEC", "U+0BED", "U+0BEE", "U+0BEF">>,
    <<"U+0C66", "U+0C67", "U+0C68", "U+0C69", "U+0C6A",
      "U+0C6B", "U+0C6C", "U+0C6D", "U+0C6E", "U+0C6F">>,
    <<"U+0CE6", "U+0CE7", "U+0CE8", "U+0CE9", "U+0CEA",
      "U+0CEB", "U+0CEC", "U+0CED", "U+0CEE", "U+0CEF">>,
    <<"U+0D66", "U+0D67", "U+0D68", "U+0D69", "U+0D6A",
      "U+0D6B", "U+0D6C", "U+0D6D", "U+0D6E", "U+0D6F">>,
    <<"U+0DE6", "U+0DE7", "U+0DE8", "U+0DE9", "U+0DEA",
      "U+0DEB", "U+0DEC", "U+0DED", "U+0DEE", "U+0DEF">>,
    <<"U+0E50", "U+0E51", "U+0E52", "U+0E53", "U+0E54",
      "U+0E55", "U+0E56", "U+0E57", "U+0E58", "U+0E59">>,
    <<"U+0ED0", "U+0ED1", "U+0ED2", "U+0ED3", "U+0ED4",
      "U+0ED5", "U+0ED6", "U+0ED7", "U+0ED8", "U+0ED9">>,
    <<"U+0F20", "U+0F21", "U+0F22", "U+0F23", "U+0F24",
      "U+0F25", "U+0F26", "U+0F27", "U+0F28", "U+0F29">>,
    <<"U+1040", "U+1041", "U+1042", "U+1043", "U+1044",
      "U+1045", "U+1046", "U+1047", "U+1048", "U+1049">>,
    <<"U+1090", "U+1091", "U+1092", "U+1093", "U+1094",
      "U+1095", "U+1096", "U+1097", "U+1098", "U+1099">>,
    <<"U+17E0", "U+17E1", "U+17E2", "U+17E3", "U+17E4",
      "U+17E5", "U+17E6", "U+17E7", "U+17E8", "U+17E9">>,
    <<"U+1810", "U+1811", "U+1812", "U+1813", "U+1814",
      "U+1815", "U+1816", "U+1817", "U+1818", "U+1819">>,
    <<"U+1946", "U+1947", "U+1948", "U+1949", "U+194A",
      "U+194B", "U+194C", "U+194D", "U+194E", "U+194F">>,
    <<"U+19D0", "U+19D1", "U+19D2", "U+19D3", "U+19D4",
      "U+19D5", "U+19D6", "U+19D7", "U+19D8", "U+19D9">>,
    <<"U+1A80", "U+1A81", "U+1A82", "U+1A83", "U+1A84",
      "U+1A85", "U+1A86", "U+1A87", "U+1A88", "U+1A89">>,
    <<"U+1A90", "U+1A91", "U+1A92", "U+1A93", "U+1A94",
      "U+1A95", "U+1A96", "U+1A97", "U+1A98", "U+1A99">>,
    <<"U+1B50", "U+1B51", "U+1B52", "U+1B53", "U+1B54",
      "U+1B55", "U+1B56", "U+1B57", "U+1B58", "U+1B59">>,
    <<"U+1BB0", "U+1BB1", "U+1BB2", "U+1BB3", "U+1BB4",
      "U+1BB5", "U+1BB6", "U+1BB7", "U+1BB8", "U+1BB9">>,
    <<"U+1C40", "U+1C41", "U+1C42", "U+1C43", "U+1C44",
      "U+1C45", "U+1C46", "U+1C47", "U+1C48", "U+1C49">>,
    <<"U+1C50", "U+1C51", "U+1C52", "U+1C53", "U+1C54",
      "U+1C55", "U+1C56", "U+1C57", "U+1C58", "U+1C59">>,
    <<"U+A620", "U+A621", "U+A622", "U+A623", "U+A624",
      "U+A625", "U+A626", "U+A627", "U+A628", "U+A629">>,
    <<"U+A8D0", "U+A8D1", "U+A8D2", "U+A8D3", "U+A8D4",
      "U+A8D5", "U+A8D6", "U+A8D7", "U+A8D8", "U+A8D9">>,
    <<"U+A900", "U+A901", "U+A902", "U+A903", "U+A904",
      "U+A905", "U+A906", "U+A907", "U+A908", "U+A909">>,
    <<"U+A9D0", "U+A9D1", "U+A9D2", "U+A9D3", "U+A9D4",
      "U+A9D5", "U+A9D6", "U+A9D7", "U+A9D8", "U+A9D9">>,
    <<"U+A9F0", "U+A9F1", "U+A9F2", "U+A9F3", "U+A9F4",
      "U+A9F5", "U+A9F6", "U+A9F7", "U+A9F8", "U+A9F9">>,
    <<"U+AA50", "U+AA51", "U+AA52", "U+AA53", "U+AA54",
      "U+AA55", "U+AA56", "U+AA57", "U+AA58", "U+AA59">>,
    <<"U+ABF0", "U+ABF1", "U+ABF2", "U+ABF3", "U+ABF4",
      "U+ABF5", "U+ABF6", "U+ABF7", "U+ABF8", "U+ABF9">>,
    <<"U+FF10", "U+FF11", "U+FF12", "U+FF13", "U+FF14",
      "U+FF15", "U+FF16", "U+FF17", "U+FF18", "U+FF19">>,
    <<"U+104A0", "U+104A1", "U+104A2", "U+104A3", "U+104A4",
      "U+104A5", "U+104A6", "U+104A7", "U+104A8", "U+104A9">>,
    <<"U+10D30", "U+10D31", "U+10D32", "U+10D33", "U+10D34",
      "U+10D35", "U+10D36", "U+10D37", "U+10D38", "U+10D39">>,
    <<"U+11066", "U+11067", "U+11068", "U+11069", "U+1106A",
      "U+1106B", "U+1106C", "U+1106D", "U+1106E", "U+1106F">>,
    <<"U+110F0", "U+110F1", "U+110F2", "U+110F3", "U+110F4",
      "U+110F5", "U+110F6", "U+110F7", "U+110F8", "U+110F9">>,
    <<"U+11136", "U+11137", "U+11138", "U+11139", "U+1113A",
      "U+1113B", "U+1113C", "U+1113D", "U+1113E", "U+1113F">>,
    <<"U+111D0", "U+111D1", "U+111D2", "U+111D3", "U+111D4",
      "U+111D5", "U+111D6", "U+111D7", "U+111D8", "U+111D9">>,
    <<"U+112F0", "U+112F1", "U+112F2", "U+112F3", "U+112F4",
      "U+112F5", "U+112F6", "U+112F7", "U+112F8", "U+112F9">>,
    <<"U+11450", "U+11451", "U+11452", "U+11453", "U+11454",
      "U+11455", "U+11456", "U+11457", "U+11458", "U+11459">>,
    <<"U+114D0", "U+114D1", "U+114D2", "U+114D3", "U+114D4",
      "U+114D5", "U+114D6", "U+114D7", "U+114D8", "U+114D9">>,
    <<"U+11650", "U+11651", "U+11652", "U+11653", "U+11654",
      "U+11655", "U+11656", "U+11657", "U+11658", "U+11659">>,
    <<"U+116C0", "U+116C1", "U+116C2", "U+116C3", "U+116C4",
      "U+116C5", "U+116C6", "U+116C7", "U+116C8", "U+116C9">>,
    <<"U+11730", "U+11731", "U+11732", "U+11733", "U+11734",
      "U+11735", "U+11736", "U+11737", "U+11738", "U+11739">>,
    <<"U+118E0", "U+118E1", "U+118E2", "U+118E3", "U+118E4",
      "U+118E5", "U+118E6", "U+118E7", "U+118E8", "U+118E9">>,
    <<"U+11950", "U+11951", "U+11952", "U+11953", "U+11954",
      "U+11955", "U+11956", "U+11957", "U+11958", "U+11959">>,
    <<"U+11C50", "U+11C51", "U+11C52", "U+11C53", "U+11C54",
      "U+11C55", "U+11C56", "U+11C57", "U+11C58", "U+11C59">>,
    <<"U+11D50", "U+11D51", "U+11D52", "U+11D53", "U+11D54",
      "U+11D55", "U+11D56", "U+11D57", "U+11D58", "U+11D59">>,
    <<"U+11DA0", "U+11DA1", "U+11DA2", "U+11DA3", "U+11DA4",
      "U+11DA5", "U+11DA6", "U+11DA7", "U+11DA8", "U+11DA9">>,
    <<"U+16A60", "U+16A61", "U+16A62", "U+16A63", "U+16A64",
      "U+16A65", "U+16A66", "U+16A67", "U+16A68", "U+16A69">>,
    <<"U+16AC0", "U+16AC1", "U+16AC2", "U+16AC3", "U+16AC4",
      "U+16AC5", "U+16AC6", "U+16AC7", "U+16AC8", "U+16AC9">>,
    <<"U+16B50", "U+16B51", "U+16B52", "U+16B53", "U+16B54",
      "U+16B55", "U+16B56", "U+16B57", "U+16B58", "U+16B59">>,
    <<"U+1D7CE", "U+1D7CF", "U+1D7D0", "U+1D7D1", "U+1D7D2",
      "U+1D7D3", "U+1D7D4", "U+1D7D5", "U+1D7D6", "U+1D7D7">>,
    <<"U+1D7D8", "U+1D7D9", "U+1D7DA", "U+1D7DB", "U+1D7DC",
      "U+1D7DD", "U+1D7DE", "U+1D7DF", "U+1D7E0", "U+1D7E1">>,
    <<"U+1D7E2", "U+1D7E3", "U+1D7E4", "U+1D7E5", "U+1D7E6",
      "U+1D7E7", "U+1D7E8", "U+1D7E9", "U+1D7EA", "U+1D7EB">>,
    <<"U+1D7EC", "U+1D7ED", "U+1D7EE", "U+1D7EF", "U+1D7F0",
      "U+1D7F1", "U+1D7F2", "U+1D7F3", "U+1D7F4", "U+1D7F5">>,
    <<"U+1D7F6", "U+1D7F7", "U+1D7F8", "U+1D7F9", "U+1D7FA",
      "U+1D7FB", "U+1D7FC", "U+1D7FD", "U+1D7FE", "U+1D7FF">>,
    <<"U+1E140", "U+1E141", "U+1E142", "U+1E143", "U+1E144",
      "U+1E145", "U+1E146", "U+1E147", "U+1E148", "U+1E149">>,
    <<"U+1E2F0", "U+1E2F1", "U+1E2F2", "U+1E2F3", "U+1E2F4",
      "U+1E2F5", "U+1E2F6", "U+1E2F7", "U+1E2F8", "U+1E2F9">>,
    <<"U+1E950", "U+1E951", "U+1E952", "U+1E953", "U+1E954",
      "U+1E955", "U+1E956", "U+1E957", "U+1E958", "U+1E959">>,
    <<"U+1FBF0", "U+1FBF1", "U+1FBF2", "U+1FBF3", "U+1FBF4",
      "U+1FBF5", "U+1FBF6", "U+1FBF7", "U+1FBF8", "U+1FBF9">>
  }

\* c is an ASCII digit
IsAsciiDigit(c) == \E i \in 1..10 : DigitChars[i] = c

\* str.isdecimal(): what \d matches and int() and float() read as a digit
IsDigit(c) ==
  IsAsciiDigit(c) \/ \E row \in UnicodeDigitRows : \E i \in 1..10 : row[i] = c

\* the value of the digit c
DigitVal(c) ==
  IF IsAsciiDigit(c) THEN (CHOOSE i \in 1..10 : DigitChars[i] = c) - 1
  ELSE (CHOOSE i \in 1..10 : \E row \in UnicodeDigitRows : row[i] = c) - 1

\* Whitespace characters that have no escape in a TLA+ string, written as
\* the characters themselves: U+000B (vertical tab), U+001C..U+001F (file,
\* group, record and unit separator), U+0085 (next line) and U+00A0
\* (no-break space).
CharVT == ""

CharFS == ""

CharGS == ""

CharRS == ""

CharUS == ""

CharNEL == ""

CharNBSP == " "

\* the whitespace of ASCII that int() and float() skip around a literal
AsciiSpaces == {" ", "\t", "\n", "\r", "\f", CharVT}

\* the whitespace beyond ASCII: U+0085, U+00A0, U+1680, U+2000..U+200A,
\* U+2028, U+2029, U+202F, U+205F and U+3000
UnicodeSpaces ==
  {CharNEL, CharNBSP,
   "U+1680", "U+2000", "U+2001", "U+2002", "U+2003", "U+2004", "U+2005",
   "U+2006", "U+2007", "U+2008", "U+2009", "U+200A", "U+2028", "U+2029",
   "U+202F", "U+205F", "U+3000"}

\* what int() and float() take for a space: the whitespace of
\* str.isspace() without the four separators U+001C..U+001F
IsNumSpace(c) == c \in AsciiSpaces \cup UnicodeSpaces

\* \s of the regular expressions and the characters str.strip() removes
\* (str.isspace())
IsSpace(c) == IsNumSpace(c) \/ c \in {CharFS, CharGS, CharRS, CharUS}

RECURSIVE RemoveSeparators(_)
\* re.sub(r'[\,\s]', '', s): s without its commas and whitespace
RemoveSeparators(s) ==
  IF s = <<>> THEN <<>>
  ELSE IF Head(s) = "," \/ IsSpace(Head(s)) THEN RemoveSeparators(Tail(s))
       ELSE <<Head(s)>> \o RemoveSeparators(Tail(s))

RECURSIVE KeepDigits(_)
\* re.sub(r'\D', '', s): the digits of s, joined in order
KeepDigits(s) ==
  IF s = <<>> THEN <<>>
  ELSE IF IsDigit(Head(s)) THEN <<Head(s)>> \o KeepDigits(Tail(s))
       ELSE KeepDigits(Tail(s))

RECURSIVE LStrip(_)
LStrip(s) == IF s # <<>> /\ IsSpace(Head(s)) THEN LStrip(Tail(s)) ELSE s

RECURSIVE RStrip(_)
RStrip(s) ==
  IF s # <<>> /\ IsSpace(s[Len(s)]) THEN RStrip(SubSeq(s, 1, Len(s) - 1)) ELSE s

\* str.strip()
Strip(s) == RStrip(LStrip(s))

\* What int() and float() make of a text before they read it: every
\* character beyond ASCII that is whitespace becomes a space and every
\* decimal digit the ASCII digit of its value.
NumText(s) ==
  [i \in 1..Len(s) |->
     IF s[i] \in UnicodeSpaces THEN " "
     ELSE IF IsDigit(s[i]) THEN DigitChars[DigitVal(s[i]) + 1]
     ELSE s[i]]

RECURSIVE NumLStrip(_)
NumLStrip(s) == IF s # <<>> /\ Head(s) \in AsciiSpaces THEN NumLStrip(Tail(s)) ELSE s

RECURSIVE NumRStrip(_)
NumRStrip(s) ==
  IF s # <<>> /\ s[Len(s)] \in AsciiSpaces THEN NumRStrip(SubSeq(s, 1, Len(s) - 1))
  ELSE s

\* the literal int() and float() read: the text they make of s without the
\* whitespace around it
NumStrip(s) == NumRStrip(NumLStrip(NumText(s)))

RECURSIVE DigitsValue(_)
\* the value of a run of decimal digits (0 for the empty run)
DigitsValue(s) ==
  IF s = <<>> THEN 0
  ELSE 10 * DigitsValue(SubSeq(s, 1, Len(s) - 1)) + DigitVal(s[Len(s)])

\* s without its leading sign
Unsigned(s) == IF s # <<>> /\ Head(s) \in {"-", "+"} THEN Tail(s) ELSE s

SignOf(s) == IF s # <<>> /\ Head(s) = "-" THEN -1 ELSE 1

\* digits with single underscores between them (digit (["_"] digit)*)
DigitPart(s) ==
  /\ s # <<>>
  /\ IsDigit(s[1])
  /\ IsDigit(s[Len(s)])
  /\ \A i \in 1..Len(s) : IsDigit(s[i]) \/ s[i] = "_"
  /\ \A i \in 1..(Len(s) - 1) : ~(s[i] = "_" /\ s[i + 1] = "_")

\* int() refuses a literal of more decimal digits than this, and str() an
\* int of more (sys.get_int_max_str_digits() of Python 3.11)
IntMaxStrDigits == 4300

\* int(s2) succeeds: an optional sign and a digit part of at most
\* IntMaxStrDigits digits, with whitespace around them
IntParses(s) ==
  /\ DigitPart(Unsigned(NumStrip(s)))
  /\ Len(KeepDigits(Unsigned(NumStrip(s)))) <= IntMaxStrDigits

IntValue(s) == SignOf(NumStrip(s)) * DigitsValue(KeepDigits(Unsigned(NumStrip(s))))

\* position of the first "." of s, 0 when there is none
DotPos(s) ==
  IF \E i \in 1..Len(s) : s[i] = "."
  THEN CHOOSE i \in 1..Len(s) : s[i] = "." /\ \A j \in 1..(i - 1) : s[j] # "."
  ELSE 0

\* position of the first "e" or "E" of s, 0 when there is none
ExpPos(s) ==
  IF \E i \in 1..Len(s) : s[i] \in {"e", "E"}
  THEN CHOOSE i \in 1..Len(s) :
         s[i] \in {"e", "E"} /\ \A j \in 1..(i - 1) : s[j] \notin {"e", "E"}
  ELSE 0

\* float(s2) gives an infinity or a NaN, whose int() raises: a signed inf,
\* infinity or nan in any case
IsInfNan(s) ==
  LET u == Unsigned(NumStrip(s))
      Lower(c) == CASE c = "I" -> "i" [] c = "N" -> "n" [] c = "F" -> "f"
                    [] c = "T" -> "t" [] c = "Y" -> "y" [] c = "A" -> "a"
                    [] OTHER -> c
      low == [i \in 1..Len(u) |-> Lower(u[i])]
  IN low \in {<<"i", "n", "f">>, <<"n", "a", "n">>,
              <<"i", "n", "f", "i", "n", "i", "t", "y">>}

\* float(s2) succeeds: [sign] mantissa [("e" | "E") [sign] digitpart], or a
\* signed inf, infinity or nan in any case, with whitespace around them; the
\* mantissa is [digitpart] "." digitpart, digitpart "." or digitpart
FloatParses(s) ==
  LET Shape(int, frac) ==
        /\ int = <<>> \/ DigitPart(int)
        /\ frac = <<>> \/ DigitPart(frac)
        /\ int # <<>> \/ frac # <<>>
      Mantissa(m, d) ==
        IF d = 0 THEN Shape(m, <<>>)
        ELSE Shape(SubSeq(m, 1, d - 1), SubSeq(m, d + 1, Len(m)))
      Literal(u, p) ==
        IF p = 0 THEN Mantissa(u, DotPos(u))
        ELSE /\ Mantissa(SubSeq(u, 1, p - 1), DotPos(SubSeq(u, 1, p - 1)))
             /\ DigitPart(Unsigned(SubSeq(u, p + 1, Len(u))))
  IN IsInfNan(s) \/ Literal(Unsigned(NumStrip(s)), ExpPos(Unsigned(NumStrip(s))))

RECURSIVE DropZeros(_)
\* a run of digits without its leading zeros
DropZeros(d) == IF d # <<>> /\ Head(d) = "0" THEN DropZeros(Tail(d)) ELSE d

RECURSIVE Zeros(_)
Zeros(k) == IF k <= 0 THEN <<>> ELSE <<"0">> \o Zeros(k - 1)

\* the mantissa of the unsigned literal u, and the text of its exponent
MantissaOf(u) == IF ExpPos(u) = 0 THEN u ELSE SubSeq(u, 1, ExpPos(u) - 1)

ExponentOf(u) == IF ExpPos(u) = 0 THEN <<>> ELSE SubSeq(u, ExpPos(u) + 1, Len(u))

\* the value of an exponent; beyond six digits it is cut to a million, past
\* the exponents at which a double is 0 or infinite
ExponentValue(t) ==
  LET d == DropZeros(KeepDigits(t))
  IN SignOf(t) * (IF Len(d) > 6 THEN 1000000 ELSE DigitsValue(d))

\* the significant digits of the literal u, leading zeros dropped
Significand(u) == DropZeros(KeepDigits(MantissaOf(u)))

\* the number of digits the value of u has before its decimal point (0 or
\* less: the value is below 1 and its fraction begins with that many zeros)
PointPos(u) ==
  LET m == MantissaOf(u)
      places == IF DotPos(m) = 0 THEN 0
                ELSE Len(KeepDigits(SubSeq(m, DotPos(m) + 1, Len(m))))
  IN Len(Significand(u)) + ExponentValue(ExponentOf(u)) - places

RECURSIVE DigitsGE(_, _)
\* a >= b for two runs of digits that start at the same decimal place, the
\* shorter one continued with zeros
DigitsGE(a, b) ==
  IF b = <<>> THEN TRUE
  ELSE IF a = <<>> THEN \A i \in 1..Len(b) : b[i] = "0"
  ELSE IF Head(a) # Head(b) THEN DigitVal(Head(a)) > DigitVal(Head(b))
  ELSE DigitsGE(Tail(a), Tail(b))

\* the digits of 2^1024 - 2^970, the least value that float() rounds to
\* infinity (halfway between the largest double and 2^1024)
FloatMaxDigits ==
  <<"1", "7", "9", "7", "6", "9", "3", "1", "3", "4", "8", "6", "2", "3",
    "1", "5", "8", "0", "7", "9", "3", "7", "2", "8", "9", "7", "1", "4",
    "0", "5", "3", "0", "3", "4", "1", "5", "0", "7", "9", "9", "3", "4",
    "1", "3", "2", "7", "1", "0", "0", "3", "7", "8", "2", "6", "9", "3",
    "6", "1", "7", "3", "7", "7", "8", "9", "8", "0", "4", "4", "4", "9",
    "6", "8", "2", "9", "2", "7", "6", "4", "7", "5", "0", "9", "4", "6",
    "6", "4", "9", "0", "1", "7", "9", "7", "7", "5", "8", "7", "2", "0",
    "7", "0", "9", "6", "3", "3", "0", "2", "8", "6", "4", "1", "6", "6",
    "9", "2", "8", "8", "7", "9", "1", "0", "9", "4", "6", "5", "5", "5",
    "5", "4", "7", "8", "5", "1", "9", "4", "0", "4", "0", "2", "6", "3",
    "0", "6", "5", "7", "4", "8", "8", "6", "7", "1", "5", "0", "5", "8",
    "2", "0", "6", "8", "1", "9", "0", "8", "9", "0", "2", "0", "0", "0",
    "7", "0", "8", "3", "8", "3", "6", "7", "6", "2", "7", "3", "8", "5",
    "4", "8", "4", "5", "8", "1", "7", "7", "1", "1", "5", "3", "1", "7",
    "6", "4", "4", "7", "5", "7", "3", "0", "2", "7", "0", "0", "6", "9",
    "8", "5", "5", "5", "7", "1", "3", "6", "6", "9", "5", "9", "6", "2",
    "2", "8", "4", "2", "9", "1", "4", "8", "1", "9", "8", "6", "0", "8",
    "3", "4", "9", "3", "6", "4", "7", "5", "2", "9", "2", "7", "1", "9",
    "0", "7", "4", "1", "6", "8", "4", "4", "4", "3", "6", "5", "5", "1",
    "0", "7", "0", "4", "3", "4", "2", "7", "1", "1", "5", "5", "9", "6",
    "9", "9", "5", "0", "8", "0", "9", "3", "0", "4", "2", "8", "8", "0",
    "1", "7", "7", "9", "0", "4", "1", "7", "4", "4", "9", "7", "7", "9",
    "2">>

\* float(s2) of a finite literal is infinite: int() of it raises
\* OverflowError
FloatOverflows(s) ==
  LET Over(d, p) ==
        d # <<>> /\ (p > Len(FloatMaxDigits)
                       \/ (p = Len(FloatMaxDigits) /\ DigitsGE(d, FloatMaxDigits)))
      Literal(u) == Over(Significand(u), PointPos(u))
  IN ~IsInfNan(s) /\ Literal(Unsigned(NumStrip(s)))

\* the digits of half the decimal fraction 0.d, for d ending in an odd
\* digit: each digit is halved together with the remainder of the one before
Halved(d) ==
  LET half == [i \in 1..(Len(d) + 1) |->
                 LET carry == IF i = 1 THEN 0 ELSE DigitVal(d[i - 1]) % 2
                     digit == IF i <= Len(d) THEN DigitVal(d[i]) ELSE 0
                 IN DigitChars[((10 * carry + digit) \div 2) + 1]]
  IN SubSeq(half, 1, Len(d) + 1)

\* the fraction digits of 2^-22 and of 2^-38, from which the smaller powers
\* are reached in few halvings
HalfPow22 ==
  <<
    "0", "0", "0", "0", "0", "0", "2", "3", "8", "4", "1", "8", "5", "7", "9", "1",
    "0", "1", "5", "6", "2", "5" >>

HalfPow38 ==
  <<
    "0", "0", "0", "0", "0", "0", "0", "0", "0", "0", "0", "3", "6", "3", "7", "9",
    "7", "8", "8", "0", "7", "0", "9", "1", "7", "1", "2", "9", "5", "1", "6", "6",
    "0", "1", "5", "6", "2", "5" >>

RECURSIVE HalfPow(_)
\* the fraction digits of 2^-j, for j >= 1
HalfPow(j) ==
  IF j = 1 THEN <<"5">>
  ELSE IF j = 22 THEN HalfPow22
  ELSE IF j = 38 THEN HalfPow38
  ELSE Halved(HalfPow(j - 1))

\* the fraction digits of 1 - 0.d, for a fraction 0.d that ends in a
\* digit other than 0
OneMinus(d) ==
  [i \in 1..Len(d) |->
     DigitChars[(IF i = Len(d) THEN 10 ELSE 9) - DigitVal(d[i]) + 1]]

RECURSIVE Log2(_)
\* the exponent of the power of two at or below k; -1 for 0
Log2(k) == IF k = 0 THEN -1 ELSE 1 + Log2(k \div 2)

\* A double has 53 significant bits: the value k + 0.frac, with k below
\* 2^52, is read as the double k + 1 when it is nearer to k + 1 than to
\* the double before k + 1 (or halfway, k + 1 being the even one), that is
\* when 0.frac >= 1 - 2^(Log2(k) - 53), which is 0.75 or more; otherwise as
\* a double in [k, k + 1)
RoundsUp(k, frac) ==
  /\ frac # <<>>
  /\ DigitVal(Head(frac)) >= 7
  /\ DigitsGE(frac, OneMinus(HalfPow(53 - Log2(k))))

RECURSIVE Pow2(_)
Pow2(n) == IF n <= 0 THEN 1 ELSE 2 * Pow2(n - 1)

\* int() of the double nearest to k + 0.frac, halfway cases going to the
\* double whose last bit is 0.  Below 2^52 the doubles are less than 1
\* apart; from 2^52 to 2^53 they are the integers; from 2^53 on they are
\* the multiples of ulp = 2^(Log2(k) - 52).
NearestWhole(k, frac) ==
  LET NonZero(d) == \E i \in 1..Len(d) : DigitVal(d[i]) # 0
      Half(d) == d # <<>> /\ DigitVal(Head(d)) = 5 /\ ~NonZero(Tail(d))
      OverHalf(d) == d # <<>> /\ DigitVal(Head(d)) >= 5 /\ ~Half(d)
      ulp == Pow2(Log2(k) - 52)
      q == k \div ulp
      r == k % ulp
      Up == \/ 2 * r > ulp
            \/ (2 * r = ulp /\ (NonZero(frac) \/ q % 2 = 1))
  IN IF Log2(k) < 52 THEN k + (IF RoundsUp(k, frac) THEN 1 ELSE 0)
     ELSE IF Log2(k) = 52
     THEN k + (IF OverHalf(frac) \/ (Half(frac) /\ k % 2 = 1) THEN 1 ELSE 0)
     ELSE (q + (IF Up THEN 1 ELSE 0)) * ulp

\* int(float(s2)) of a finite literal: the double nearest to the decimal
\* value of the literal, cut toward zero
FloatTrunc(s) ==
  LET Whole(d, p) ==
        IF d = <<>> \/ p <= 0 THEN 0
        ELSE IF p <= Len(d) THEN DigitsValue(SubSeq(d, 1, p))
        ELSE DigitsValue(d \o Zeros(p - Len(d)))
      Frac(d, p) ==
        IF p < 0 THEN <<"0">>
        ELSE IF p >= Len(d) THEN <<>> ELSE SubSeq(d, p + 1, Len(d))
      Value(d, p) == NearestWhole(Whole(d, p), Frac(d, p))
      Literal(u) == Value(Significand(u), PointPos(u))
  IN SignOf(NumStrip(s)) * Literal(Unsigned(NumStrip(s)))

\* A raw PCTCnt value of a JSON body: null, a JSON integer or a JSON string.
RawNone == [t |-> "none", n |-> 0, s |-> <<>>]

RawInt(k) == [t |-> "int", n |-> k, s |-> <<>>]

RawStr(chars) == [t |-> "str", n |-> 0, s |-> chars]

\* an int beyond the integers of the model, given by its decimal digits
RawBig(digits) == [t |-> "int", n |-> 0, s |-> digits]

RECURSIVE NatStr(_)
\* str(k) for k >= 0
NatStr(k) ==
  IF k < 10 THEN <<DigitChars[k + 1]>>
  ELSE NatStr(k \div 10) \o <<DigitChars[(k % 10) + 1]>>

\* str(cnt_raw)
PyStr(raw) ==
  IF raw.t = "str" \/ raw.s # <<>> THEN raw.s
  ELSE IF raw.n < 0 THEN <<"-">> \o NatStr(-raw.n) ELSE NatStr(raw.n)

\* truthiness of a raw value: None, 0 and "" are falsy
Truthy(raw) == (raw.t = "int" /\ raw.n # 0) \/ raw.s # <<>>

\* How an expression ends: with a value, or with an exception raised
Returned(n) == [raised |-> FALSE, value |-> n]

Raised == [raised |-> TRUE, value |-> 0]

\* int(s): ValueError for a text that is no integer literal
PyInt(s) == IF IntParses(s) THEN Returned(IntValue(s)) ELSE Raised

\* int(float(s)): ValueError for a text that is no float literal, and
\* ValueError or OverflowError of int() for a NaN or an infinity
PyIntOfFloat(s) ==
  IF FloatParses(s) /\ ~IsInfNan(s) /\ ~FloatOverflows(s)
  THEN Returned(FloatTrunc(s)) ELSE Raised

\* try: body / except Exception: handler
Except(body, handler) == IF body.raised THEN handler ELSE body

\* str(cnt_raw) raises ValueError: an int of more than IntMaxStrDigits
\* decimal digits
StrRaises(raw) == raw.t = "int" /\ Len(raw.s) > IntMaxStrDigits

\* MonitorApp._parse_count: how the call ends.  str(cnt_raw) is outside
\* the try statements.
ParseCountOutcome(raw) ==
  IF raw.t = "none" THEN Returned(0)
  ELSE IF StrRaises(raw) THEN Raised
  ELSE LET s == Strip(PyStr(raw))
           s2 == RemoveSeparators(s)
           digits == KeepDigits(s)
           Fallback == IF digits # <<>> THEN Except(PyInt(digits), Returned(0))
                       ELSE Returned(0)
       IN IF s = <<>> THEN Returned(0)
          ELSE Except(PyInt(s2), Except(PyIntOfFloat(s2), Fallback))

\* MonitorApp._parse_count: the value it returns
ParseCount(raw) == ParseCountOutcome(raw).value

\* ------------------------------------------------------- HTTP responses
\* One element of a PCTs list: a JSON object with PCTName and PCTCnt, or an
\* element that is no JSON object (pct.get raises AttributeError on it).
Rec(name, raw) == [dict |-> TRUE, PCTName |-> name, PCTCnt |-> raw]

NotADict == [dict |-> FALSE, PCTName |-> "", PCTCnt |-> RawNone]

L10 == <<Rec("PCT1", RawStr(<<"1", "0">>))>>

L20 == <<Rec("PCT1", RawInt(20))>>

L30 == <<Rec("PCT1", RawStr(<<"3", "0">>))>>

L40 == <<Rec("PCT1", RawStr(<<" ", "4", "0">>))>>

LMix == <<Rec("", RawStr(<<"7">>)), Rec("A", RawStr(<<"1", ",", "0", "0", "5">>)),
          NotADict, Rec("B", RawNone)>>

LGrp == <<Rec("A", RawStr(<<"1", " ", "2">>)), Rec("PCT1", RawStr(<<"a", "3", "b">>))>>

\* The PCTs list each region of each host serves when it answers with data:
\* a fixed function of (host, region) during a behaviour.
ServedE2E ==
  [h \in Hosts |-> [r \in Regions |->
     IF h = "h1" THEN (IF r = "r1" THEN L10 ELSE L20)
     ELSE (IF r = "r1" THEN L30 ELSE L40)]]

ServedMixed ==
  [h \in Hosts |-> [r \in Regions |->
     IF h = "h1" THEN (IF r = "r1" THEN LMix ELSE LGrp)
     ELSE (IF r = "r1" THEN LGrp ELSE L20)]]

ServerData == {ServedE2E, ServedMixed}

\* What requests.get produced.  status 0 stands for "requests.get raised"
\* (connection refused, timeout); body is the shape of the response body:
\*   notjson    resp.json() raises
\*   nopcts     a JSON object without a truthy PCTs value and without an
\*              ErrorTitle, or a JSON scalar at top level
\*   titled     a JSON object with an ErrorTitle and no PCTs
\*   empty      a JSON object whose PCTs is the empty list
\*   emptylist  the empty list at top level
\*   scalar     PCTs is a truthy value that cannot be iterated (5, true)
\*   text       PCTs is a non-empty string or object: iterable, no element
\*              is a JSON object
\*   list       PCTs (or the whole body) is a non-empty list, in pcts
Response(st, body, pcts) == [status |-> st, body |-> body, pcts |-> pcts]

Transport == Response(0, "notjson", <<>>)

\* resp while the thread holds no response it will still read
NoResponse == Response(0, "none", <<>>)

\* The answers a request for the PCTs list data can get, one for each way
\* the sweep and refresh 'All' go on: both look at the status first and tell
\* the bodies of a 2xx answer apart.
Responses(data) ==
  {Transport}
    \cup {Response(st, "notjson", <<>>) : st \in {401, 404, 500}}
    \cup {Response(200, b, <<>>) : b \in {"notjson", "nopcts", "empty", "scalar", "text"}}
    \cup {Response(200, "list", data)}

\* those of them on which the order of the requests and the calls of the
\* authenticator depend: no answer, a 401, another error status, a body on
\* which the worker raises, and data
CoreResponses(data) ==
  {Transport, Response(401, "notjson", <<>>), Response(500, "notjson", <<>>),
   Response(200, "scalar", <<>>), Response(200, "list", data)}

\* those of them that decide whether a logon is made: a 401 and data
StoreResponses(data) == {Response(401, "notjson", <<>>), Response(200, "list", data)}

\* ... and those the refresh of one region tells apart besides: a 404 and a
\* 500 whose body is a JSON object, without and with an ErrorTitle, and the
\* empty list at top level
SingleResponses(data) ==
  Responses(data)
    \cup {Response(500, "nopcts", <<>>), Response(404, "nopcts", <<>>),
          Response(404, "titled", <<>>), Response(200, "emptylist", <<>>)}

\* The EndpointOutcome of a pair whose last exchange gave r (spec 4.4)
OutcomeOf(r) ==
  IF r.status = 0 THEN "Transport"
  ELSE IF r.status = 401 THEN "Unauthorized"
  ELSE IF r.status = 404 THEN "NotFound"
  ELSE IF r.status < 200 \/ r.status >= 300 THEN "ServerError"
  ELSE IF r.body \in {"empty", "emptylist", "list"} THEN "Success"
  ELSE "Malformed"

\* ------------------------------------------------------- authenticator
\* What microfocus_logon did: returned (headers, cookie) with a cookie,
\* returned with an empty cookie, raised SystemExit, raised an Exception.
AuthOutcome(kind, tok) == [kind |-> kind, tok |-> tok]

NoAuth == AuthOutcome("none", NoToken)

\* the configured host mappings (host_mapping: host -> regions, in order)
Target(h, rs) == [host |-> h, regions |-> rs]

\* two hosts with two regions each
Mapping2x2 == <<Target("h1", <<"r1", "r2">>), Target("h2", <<"r1", "r2">>)>>

\* a repeated region; a host without regions; two hosts sharing a region
\* name.  __init__ adds the default host to what host_mapping.json holds, so
\* that the mapping is never empty.
Mappings ==
  { <<Target("h1", <<"r1", "r1">>)>>,
    <<Target("h2", <<>>), Target("h1", <<"r2">>)>>,
    <<Target("h2", <<"r1">>), Target("h1", <<"r1">>)>> }

\* The configurations explored: every mapping of Mappings with and without
\* credentials, and the 2x2 mapping read anonymously.
Configs ==
  {[mapping |-> m, creds |-> c] : m \in Mappings, c \in BOOLEAN}
    \cup {[mapping |-> Mapping2x2, creds |-> FALSE]}

\* the threads consultar_todos can have started: one for each press
Workers == 1..MaxPresses

\* ------------------------------------------------------- state
VARIABLES
  host_mapping,     \* self.host_mapping, as the list of its items
  gif_frames,       \* self.gif_label and self._gif_frames: _build_ui found the
                    \*   spinner GIF beside the program and loaded frames of it
  user_var,         \* self.user_var.get().strip() is not empty
  pass_var,         \* self.pass_var.get().strip() is not empty
  host_var,         \* self.host_var: the host in the Host field ("none": empty)
  port_var,         \* self.port_var.get().strip() is not empty
  region_var,       \* self.region_var: the region in the Region field
                    \*   ("none": empty)
  served,           \* the remote hosts: the PCTs list of each (host, region)
  answers,          \* the remote hosts: the answers each (host, region) can give
  session_cookies,  \* self.session_cookies: host -> token
  session_cookie,   \* self.session_cookie (interactive session)
  logon_headers,    \* self.logon_headers (0: None, k: headers of logon k,
                    \*   -1: headers of a logon that returned no cookie)
  issuedFor,        \* authenticator: issuedFor[k] is the host token k was issued for
  worker,           \* the worker threads: position and locals of _start and
                    \*   _consultar_todos_worker in each
  busy,             \* btn_consultar_todos is disabled (_set_busy,
                    \*   _set_ui_logged_in)
  logged_in,        \* btn_refresh and btn_clear are enabled (_set_ui_logged_in)
  afterQueue,       \* Tk event queue: the results scheduled by self.after
  alive,            \* the window exists and the main loop runs
  mpc,              \* main thread: idle in the event loop, or its position
                    \*   inside login or refresh
  mhost,            \* main thread: host of the login or refresh in progress
  mauth,            \* main thread: what its microfocus_logon call produced
  modal,            \* number of _consultar_todos_done calls that wait in
                    \*   their messagebox
  mstatus,          \* the status text the handler sets when its messagebox
                    \*   is closed ("none": it sets none)
  dialog,           \* title of the last messagebox shown
  tree,             \* rows of self.tree
  status,           \* kind of the last status_var text
  started,          \* history: number of worker threads started
  doneCount,        \* history: number of _consultar_todos_done invocations
  logins,           \* history: number of Logon presses
  prevResult,       \* history: the result of the last sweep that ended, kept
                    \*   when every endpoint has one fixed answer
  lastReq,          \* history: the last request sent by refresh
  rri,              \* refresh 'All': index of the current region
  rcookie,          \* refresh 'All': local cookie_val
  rauto,            \* refresh 'All': local auto_cookie
  rresp,            \* refresh: local resp, kept while it is still read
  racc,             \* refresh 'All': agg_pcts, total_sum, total_calls, region_counts
  failed_regions,   \* refresh 'All': local failed_regions
  rcur,             \* history: the exchanges made for the current region
  refreshes,        \* history: number of Refrescar presses
  rpass,            \* history: host and phase of the latest refresh with region 'All',
                    \* and the token its latest logon after a 401 was given
  sregion,          \* region of the running refresh of one region
  logoffs,          \* history: number of Logoff presses
  loggedOff,        \* history: the tokens a successful logoff has ended
  cnt_raw,          \* _parse_count called by itself: its argument
  parsed            \* ... and how the calls made ended, in order

storeVars == <<session_cookies, session_cookie, logon_headers, issuedFor>>

configVars == <<host_mapping, gif_frames, served, answers>>

credVars == <<user_var, pass_var>>

targetVars == <<host_var, port_var, region_var>>

fieldVars == <<credVars, targetVars>>

parseVars == <<cnt_raw, parsed>>

mainVars == <<busy, logged_in, afterQueue, alive, mpc, mhost, mauth, modal, mstatus,
              dialog, tree, status>>

histVars == <<started, doneCount, logins, prevResult>>

refreshVars == <<lastReq, rri, rcookie, rauto, rresp, racc, failed_regions, rcur,
                 refreshes, rpass, sregion>>

logoffVars == <<logoffs, loggedOff>>

vars == <<configVars, fieldVars, storeVars, worker, mainVars, histVars, refreshVars,
          logoffVars, parseVars>>

\* user and password are both filled in
credentials == user_var /\ pass_var

\* the buttons pressed so far
Presses == started + logins + refreshes + logoffs

NoResult == [kind |-> "none", total_sum |-> 0, total_calls |-> 0,
             agg_pcts |-> EmptyDict, agg_by_region |-> EmptyDict,
             agg_by_host |-> EmptyDict]

NoRequest == [host |-> "", region |-> "", cookie |-> NoToken]

\* the exchanges of a pair: requests sent, authenticator calls made, whether
\* the authenticator gave a cookie, status of the first answer, outcome
NoPair == [gets |-> 0, auths |-> 0, authOk |-> FALSE, first |-> 0, final |-> "none"]

\* the exchanges of a region: requests sent, authenticator calls made
NoExchange == [gets |-> 0, auths |-> 0]

\* A worker thread: wpc is its position ("idle": never started, "exited":
\* ended), hi and ri the indices of the current host and region, usr what
\* _get_session_cookie_for_host read from user_var, the other fields the
\* locals of the same name.  History: visited, the pairs whose handling
\* ended; cur, the exchanges of the current pair; lastReq, the last request
\* sent; sweepCalls, the requests and authenticator calls made, counted
\* where every endpoint answers each request the same way; authFailed, an
\* authenticator call of the sweep has raised, exited or given no cookie.
NoLocals ==
  [wpc |-> "idle", hi |-> 1, ri |-> 1, cookie_val |-> NoToken, usr |-> FALSE,
   resp |-> NoResponse, wauth |-> NoAuth, total_sum |-> 0, total_calls |-> 0,
   agg_pcts |-> EmptyDict, agg_by_region |-> EmptyDict, agg_by_host |-> EmptyDict,
   result |-> NoResult, visited |-> <<>>, cur |-> NoPair, lastReq |-> NoRequest,
   sweepCalls |-> NoExchange, authFailed |-> FALSE]

\* every endpoint may answer each request differently
AnyAnswer(data) == [h \in Hosts |-> [r \in Regions |-> Responses(data[h][r])]]

\* ... in one of the ways on which the order of the requests depends
CoreAnswer(data) == [h \in Hosts |-> [r \in Regions |-> CoreResponses(data[h][r])]]

\* ... by asking for a logon or with data
StoreAnswer(data) == [h \in Hosts |-> [r \in Regions |-> StoreResponses(data[h][r])]]

\* ... with the answers the refresh of one region tells apart
SingleAnswer(data) == [h \in Hosts |-> [r \in Regions |-> SingleResponses(data[h][r])]]

\* each endpoint answers every request the same way
FixedAnswers(data) ==
  {[h \in Hosts |-> [r \in Regions |-> {IF h = "h1" THEN a ELSE b}]] :
     a \in Responses(data["h1"]["r1"]), b \in Responses(data["h2"]["r1"])}

Deterministic == \A h \in Hosts : \A r \in Regions : Cardinality(answers[h][r]) = 1

\* the host login() takes when the Host or the Port field is empty
FirstHost == host_mapping[1].host

\* the Host, Port and Region fields hold host h ("none": empty), a port
\* (p) and region r ("none": empty)
Target3(h, p, r) == host_var = h /\ port_var = p /\ region_var = r

\* no logon was made yet: __init__ has disabled the controls and has put
\* the default port into the Port field
FreshSession ==
  /\ Target3("none", TRUE, "none")
  /\ logged_in = FALSE
  /\ session_cookies = EmptyDict
  /\ session_cookie = NoToken
  /\ logon_headers = 0
  /\ issuedFor = <<>>
  /\ status = "none"

\* the session fields and the controls after one successful interactive
\* login, which was made for the first mapped host and has emptied the Host
\* and Port fields
LoggedIn ==
  /\ Target3("none", FALSE, "none")
  /\ logged_in = TRUE
  /\ session_cookies = DictSet(EmptyDict, FirstHost, 1)
  /\ session_cookie = 1
  /\ logon_headers = 1
  /\ issuedFor = <<FirstHost>>
  /\ status = "Logon exitoso"

\* the accumulators of refresh 'All' before its first region
NoRefreshAcc == [agg_pcts |-> EmptyDict, total_sum |-> 0, total_calls |-> 0,
                 region_counts |-> EmptyDict]

\* no refresh with region 'All' was started yet
NoPass == [host |-> "none", phase |-> "none", renewed |-> NoToken]

\* no refresh is running: its locals do not exist
NoRefresh ==
  /\ lastReq = NoRequest
  /\ rri = 1
  /\ rcookie = NoToken
  /\ rauto = NoToken
  /\ rresp = NoResponse
  /\ racc = NoRefreshAcc
  /\ failed_regions = <<>>
  /\ rcur = NoExchange
  /\ rpass = NoPass
  /\ sregion = "none"

\* _parse_count is not called by itself
NoParse == cnt_raw = RawNone /\ parsed = <<>>

\* no handler runs and nothing was shown; the button of the sweep is as
\* _set_ui_logged_in left it
MainIdle ==
  /\ busy = ~logged_in
  /\ afterQueue = <<>>
  /\ alive = TRUE
  /\ mpc = "idle"
  /\ mhost = "none"
  /\ mauth = NoAuth
  /\ modal = 0
  /\ mstatus = "none"
  /\ dialog = "none"
  /\ tree = <<>>
  /\ logins = 0
  /\ NoRefresh
  /\ refreshes = 0
  /\ logoffs = 0
  /\ loggedOff = {}

\* ... and no worker thread was started
Idle ==
  /\ MainIdle
  /\ NoParse
  /\ worker = [w \in Workers |-> NoLocals]
  /\ started = 0
  /\ doneCount = 0
  /\ prevResult = NoResult

\* the application as __init__ leaves it: no session, the controls disabled,
\* the user and password fields empty
Init ==
  /\ gif_frames \in BOOLEAN
  /\ host_mapping \in Mappings \cup {Mapping2x2}
  /\ user_var = FALSE
  /\ pass_var = FALSE
  /\ served \in ServerData
  /\ answers = SingleAnswer(served)
  /\ FreshSession
  /\ Idle

\* ------------------------------------------------------- Tk and threads
\* The main thread is in an event loop: the main loop between two handlers,
\* or the loop a messagebox runs until it is closed.
EventLoop == mpc \in {"idle", "dlg", "r_prelogin_dlg", "r_login_dlg", "s_login_dlg"}

\* The event loop runs the callbacks scheduled with after and the calls
\* worker threads make into Tk (reading user_var or pass_var, self.after):
\* while a handler of the main thread waits for the network, such a call
\* waits too.  When the window is closed mainloop() and main() return and
\* the process ends, its daemon worker threads with it: no thread takes a
\* step after that, so that the RuntimeError a call into Tk would raise
\* without a main loop (caught at lines 1257, 1281 and 927) is not met.
TkServes == alive /\ EventLoop

\* the user can press a button, type or close the window: no handler runs
\* and no messagebox is open
UserCan == alive /\ mpc = "idle" /\ modal = 0

\* ------------------------------------------------------- the authenticator
\* The outcomes microfocus_logon can have now; a new token gets the next number.
AuthOutcomes ==
  {AuthOutcome(k, NoToken) : k \in {"empty", "exit", "error"}}
    \cup (IF Len(issuedFor) < MaxTokens
          THEN {AuthOutcome("ok", Len(issuedFor) + 1)} ELSE {})

\* microfocus_logon(base_url, user, pw) for host h ends with outcome out
Logon(h, out) ==
  /\ out \in AuthOutcomes
  /\ issuedFor' = IF out.kind = "ok" THEN Append(issuedFor, h) ELSE issuedFor

\* mutant: the cookie is stored only for a host that has none yet (setdefault)
GetCookieStoreKeepsOld(cookies, host, out) ==
  IF out.kind = "ok" /\ host \notin DOMAIN cookies
  THEN DictSet(cookies, host, out.tok) ELSE cookies

\* _get_session_cookie_for_host after microfocus_logon: the store it leaves
GetCookieStore(cookies, host, out) ==
  IF out.kind = "ok" THEN DictSet(cookies, host, out.tok) ELSE cookies

\* _get_session_cookie_for_host after microfocus_logon: the value it returns
GetCookieResult(out) == IF out.kind = "ok" THEN out.tok ELSE NoToken

\* the GUI state and interactive session fields _get_session_cookie_for_host
\* can write
Ui == [dialog |-> dialog, status |-> status,
       logon_headers |-> logon_headers, session_cookie |-> session_cookie]

\* mutant: the interactive flag is not consulted
GetCookieUiAlways(interactive, out, ui) ==
  IF out.kind = "exit" THEN [ui EXCEPT !.dialog = "Logon failed"]
  ELSE IF out.kind = "error" THEN [ui EXCEPT !.dialog = "Logon error"]
  ELSE [ui EXCEPT !.logon_headers = IF out.kind = "ok" THEN out.tok ELSE -1,
                  !.session_cookie = GetCookieResult(out),
                  !.status = "Logon exitoso"]

\* _get_session_cookie_for_host after microfocus_logon: the messagebox it
\* shows, the status text and the interactive session fields it leaves
GetCookieUi(interactive, out, ui) ==
  IF ~interactive THEN ui
  ELSE IF out.kind = "exit" THEN [ui EXCEPT !.dialog = "Logon failed"]
  ELSE IF out.kind = "error" THEN [ui EXCEPT !.dialog = "Logon error"]
  ELSE [ui EXCEPT !.logon_headers = IF out.kind = "ok" THEN out.tok ELSE -1,
                  !.session_cookie = GetCookieResult(out),
                  !.status = "Logon exitoso"]

\* the interactive call shows a messagebox for this outcome
ShowsError(out) == out.kind \in {"exit", "error"}

\* the state after _get_session_cookie_for_host wrote ui
SetUi(u) ==
  /\ dialog' = u.dialog
  /\ status' = u.status
  /\ logon_headers' = u.logon_headers
  /\ session_cookie' = u.session_cookie

\* one more request of the sweep of a worker with locals l
CountGet(l) ==
  IF Deterministic THEN [l.sweepCalls EXCEPT !.gets = @ + 1] ELSE l.sweepCalls

\* one more call of the authenticator by the sweep
CountAuth(l) ==
  IF Deterministic THEN [l.sweepCalls EXCEPT !.auths = @ + 1] ELSE l.sweepCalls

\* ------------------------------------------------------- the sweep's fold
\* pct.get('PCTCnt') or 0
CntOrZero(pct) == IF Truthy(pct.PCTCnt) THEN pct.PCTCnt ELSE RawInt(0)

RECURSIVE FoldPctsStopsAtUnnamed(_, _)
\* mutant: a record without a name ends the loop (break for continue)
FoldPctsStopsAtUnnamed(pcts, acc) ==
  IF pcts = <<>> THEN acc
  ELSE LET pct == Head(pcts)
           cnt == ParseCount(CntOrZero(pct))
       IN IF ~pct.dict \/ pct.PCTName = "" THEN acc
          ELSE FoldPctsStopsAtUnnamed(Tail(pcts),
                 [agg_pcts |-> DictSet(acc.agg_pcts, pct.PCTName,
                                       DictGet(acc.agg_pcts, pct.PCTName, 0) + cnt),
                  total_sum |-> acc.total_sum + cnt,
                  region_sum |-> acc.region_sum + cnt])

RECURSIVE FoldPcts(_, _)
\* the loop over pcts: acc is [agg_pcts, total_sum, region_sum]
FoldPcts(pcts, acc) ==
  IF pcts = <<>> THEN acc
  ELSE LET pct == Head(pcts)
           cnt == ParseCount(CntOrZero(pct))
       IN IF ~pct.dict \/ pct.PCTName = "" THEN FoldPcts(Tail(pcts), acc)
          ELSE FoldPcts(Tail(pcts),
                 [agg_pcts |-> DictSet(acc.agg_pcts, pct.PCTName,
                                       DictGet(acc.agg_pcts, pct.PCTName, 0) + cnt),
                  total_sum |-> acc.total_sum + cnt,
                  region_sum |-> acc.region_sum + cnt])

\* the accumulators of a worker with locals l
Acc(l) == [total_sum |-> l.total_sum, agg_pcts |-> l.agg_pcts,
           agg_by_region |-> l.agg_by_region, agg_by_host |-> l.agg_by_host,
           raised |-> FALSE]

\* mutant: the per-region and per-host sums are assigned, not added to
AggregateOverwrites(acc, r, host, region) ==
  IF r.status < 200 \/ r.status >= 300 THEN acc
  ELSE IF r.body \in {"notjson", "nopcts", "titled", "empty", "emptylist"} THEN acc
  ELSE IF r.body = "scalar" THEN [acc EXCEPT !.raised = TRUE]
  ELSE LET pcts == IF r.body = "text" THEN <<NotADict, NotADict>> ELSE r.pcts
           f == FoldPcts(pcts, [agg_pcts |-> acc.agg_pcts,
                                total_sum |-> acc.total_sum, region_sum |-> 0])
       IN [total_sum |-> f.total_sum,
           agg_pcts |-> f.agg_pcts,
           agg_by_region |-> DictSet(acc.agg_by_region, region, f.region_sum),
           agg_by_host |-> DictSet(acc.agg_by_host, host, f.region_sum),
           raised |-> FALSE]

\* The loop body from the status test on, for the response r of (host, region):
\* the accumulators it leaves; raised when an exception leaves the worker.
Aggregate(acc, r, host, region) ==
  IF r.status < 200 \/ r.status >= 300 THEN acc
  ELSE IF r.body \in {"notjson", "nopcts", "titled", "empty", "emptylist"} THEN acc
  ELSE IF r.body = "scalar" THEN [acc EXCEPT !.raised = TRUE]
  ELSE LET pcts == IF r.body = "text" THEN <<NotADict, NotADict>> ELSE r.pcts
           f == FoldPcts(pcts, [agg_pcts |-> acc.agg_pcts,
                                total_sum |-> acc.total_sum, region_sum |-> 0])
       IN [total_sum |-> f.total_sum,
           agg_pcts |-> f.agg_pcts,
           agg_by_region |-> DictSet(acc.agg_by_region, region,
                                DictGet(acc.agg_by_region, region, 0) + f.region_sum),
           agg_by_host |-> DictSet(acc.agg_by_host, host,
                                DictGet(acc.agg_by_host, host, 0) + f.region_sum),
           raised |-> FALSE]

ErrorResult == [NoResult EXCEPT !.kind = "error"]

\* total_calls after the first requests.get of a pair gave r: the increment
\* follows the try/except around the request
CallsAfterFirst(calls, r) == IF r.status = 0 THEN calls ELSE calls + 1

\* mutant: the retry is counted like a first request
CallsAfterRetryCounted(calls, r) == IF r.status = 0 THEN calls ELSE calls + 1

\* total_calls after the retried requests.get gave r: the retry is not counted
CallsAfterRetry(calls, r) == calls

\* ------------------------------------------------------- worker thread
\* In what follows l stands for the locals of a worker thread.
CurHost(l) == host_mapping[l.hi].host

CurRegions(l) == host_mapping[l.hi].regions

\* mutant: the regions of a host are taken from the end of its list
CurRegionReversed(l) == CurRegions(l)[Len(CurRegions(l)) + 1 - l.ri]

CurRegion(l) == CurRegions(l)[l.ri]

\* the answers the current pair's endpoint can give
CurResponses(l) == answers[CurHost(l)][CurRegion(l)]

\* the request for the current pair, with the worker's cookie
CurRequest(l) == [host |-> CurHost(l), region |-> CurRegion(l), cookie |-> l.cookie_val]

\* history: the handling of the current pair ends with last exchange r
PairEnds(l, r, c) ==
  [l EXCEPT !.visited = Append(@,
                [host |-> CurHost(l), region |-> CurRegion(l),
                 got |-> IF OutcomeOf(r) # "Success" THEN "failed"
                         ELSE IF r.body = "list" THEN "data" ELSE "empty",
                 firstHttp |-> (c.first # 0), finalHttp |-> (r.status # 0)]),
            !.cur = [c EXCEPT !.final = OutcomeOf(r)],
            !.resp = NoResponse]

\* continue: on to the next region of the host, or to the next host
Continue(l) ==
  IF l.ri < Len(CurRegions(l))
  THEN [l EXCEPT !.ri = @ + 1, !.wpc = "get"]
  ELSE [l EXCEPT !.ri = 1, !.hi = @ + 1, !.wpc = "host"]

\* mutant: the exception of a request leaves the worker's loops
SkipRaises(l, r, c) == [PairEnds(l, r, c) EXCEPT !.wpc = "after", !.result = ErrorResult]

\* the pair ends at a `continue` that precedes the status test
Skip(l, r, c) == Continue(PairEnds(l, r, c))

\* the pair ends in the rest of the loop body, or the worker raises
Settle(l, r, c) ==
  LET Totals(e, a) ==
        [e EXCEPT !.total_sum = a.total_sum, !.agg_pcts = a.agg_pcts,
                  !.agg_by_region = a.agg_by_region, !.agg_by_host = a.agg_by_host]
      Goes(e, a) ==
        IF a.raised THEN [e EXCEPT !.wpc = "after", !.result = ErrorResult]
        ELSE Continue(e)
      After(a) == Goes(Totals(PairEnds(l, r, c), a), a)
  IN After(Aggregate(Acc(l), r, CurHost(l), CurRegion(l)))

\* worker w goes on with the locals l2
Step(w, l2) == worker' = [worker EXCEPT ![w] = l2]

\* what no step of a worker thread touches
WFrame == UNCHANGED <<configVars, parseVars, fieldVars, mainVars, refreshVars, logoffVars,
                      started, doneCount, logins>>

\* mutant: a host that has a stored cookie is skipped like one without regions
W_HostSkipsStored(w) ==
  LET Goes(l) ==
        IF CurRegions(l) = <<>> \/ CurHost(l) \in DOMAIN session_cookies
        THEN [l EXCEPT !.hi = @ + 1]
        ELSE [l EXCEPT !.cookie_val = NoToken, !.ri = 1, !.wpc = "host_user"]
  IN /\ alive
     /\ worker[w].wpc = "host"
     /\ worker[w].hi <= Len(host_mapping)
     /\ Step(w, Goes(worker[w]))
     /\ UNCHANGED <<storeVars, prevResult>>
     /\ WFrame

\* for host_key, m in host_mapping.items(): a host without regions is skipped;
\* otherwise the stored cookie is read
W_Host(w) ==
  LET Read(l, c) ==
        [l EXCEPT !.cookie_val = c, !.ri = 1,
                  !.wpc = IF c = NoToken THEN "host_user" ELSE "get"]
      Goes(l) ==
        IF CurRegions(l) = <<>> THEN [l EXCEPT !.hi = @ + 1]
        ELSE Read(l, DictGet(session_cookies, CurHost(l), NoToken))
  IN /\ alive
     /\ worker[w].wpc = "host"
     /\ worker[w].hi <= Len(host_mapping)
     /\ Step(w, Goes(worker[w]))
     /\ UNCHANGED <<storeVars, prevResult>>
     /\ WFrame

\* no stored cookie: `if self.user_var.get().strip() and
\* self.pass_var.get().strip()`, one read of a Tk variable at a time.  An
\* empty field leaves the host without a cookie.
W_HostCred(w) ==
  LET Goes(l) ==
        IF l.wpc = "host_user"
        THEN [l EXCEPT !.wpc = IF user_var THEN "host_pass" ELSE "get"]
        ELSE [l EXCEPT !.wpc = IF pass_var THEN "host_auth_user" ELSE "get"]
  IN /\ worker[w].wpc \in {"host_user", "host_pass"}
     /\ TkServes
     /\ Step(w, Goes(worker[w]))
     /\ UNCHANGED <<storeVars, prevResult>>
     /\ WFrame

\* _get_session_cookie_for_host(host_key, port, interactive=False) before the
\* regions of a host, up to microfocus_logon: user and pw are read; with one
\* of them empty it returns None
W_HostAuthCred(w) ==
  LET Goes(l) ==
        IF l.wpc = "host_auth_user"
        THEN [l EXCEPT !.usr = user_var, !.wpc = "host_auth_pass"]
        ELSE [l EXCEPT !.usr = FALSE,
                       !.cookie_val = NoToken,
                       !.wpc = IF l.usr /\ pass_var THEN "host_auth" ELSE "get"]
  IN /\ worker[w].wpc \in {"host_auth_user", "host_auth_pass"}
     /\ TkServes
     /\ Step(w, Goes(worker[w]))
     /\ UNCHANGED <<storeVars, prevResult>>
     /\ WFrame

\* ... microfocus_logon answers
W_HostAuthCall(w) ==
  /\ alive
  /\ worker[w].wpc = "host_auth"
  /\ \E out \in AuthOutcomes :
       /\ Logon(CurHost(worker[w]), out)
       /\ Step(w, [worker[w] EXCEPT !.wauth = out, !.wpc = "host_auth_ret",
                                    !.sweepCalls = CountAuth(worker[w])])
  /\ UNCHANGED <<session_cookies, session_cookie, logon_headers, prevResult>>
  /\ WFrame

\* ... and the worker stores and takes the cookie
W_HostAuthReturn(w) ==
  /\ alive
  /\ worker[w].wpc = "host_auth_ret"
  /\ session_cookies' = GetCookieStore(session_cookies, CurHost(worker[w]),
                                       worker[w].wauth)
  /\ SetUi(GetCookieUi(FALSE, worker[w].wauth, Ui))
  /\ Step(w, [worker[w] EXCEPT !.cookie_val = GetCookieResult(worker[w].wauth),
                               !.authFailed = @ \/ worker[w].wauth.kind # "ok",
                               !.wauth = NoAuth, !.wpc = "get"])
  /\ UNCHANGED <<configVars, parseVars, fieldVars, refreshVars, logoffVars, histVars, issuedFor>>
  /\ UNCHANGED <<busy, logged_in, afterQueue, alive, mpc, mhost, mauth, modal,
                 mstatus, tree>>

\* the first requests.get of a pair and what follows it without blocking:
\* an exception ends the pair, a 401 leads to the test of user and password,
\* any other answer to the rest of the loop body
W_Get(w) ==
  LET First(r) == [gets |-> 1, auths |-> 0, authOk |-> FALSE,
                   first |-> r.status, final |-> "pending"]
      Sent(l, r) == [l EXCEPT !.lastReq = CurRequest(l),
                              !.sweepCalls = CountGet(l),
                              !.total_calls = CallsAfterFirst(@, r)]
      Goes(l, r) ==
        IF r.status = 0 THEN Skip(l, r, First(r))
        ELSE IF r.status = 401
        THEN [l EXCEPT !.resp = r, !.cur = First(r), !.wpc = "reauth_user"]
        ELSE Settle(l, r, First(r))
  IN /\ alive
     /\ worker[w].wpc = "get"
     /\ \E r \in CurResponses(worker[w]) : Step(w, Goes(Sent(worker[w], r), r))
     /\ UNCHANGED <<storeVars, prevResult>>
     /\ WFrame

\* on 401: `if self.user_var.get().strip() and self.pass_var.get().strip()`,
\* one read at a time.  With an empty field resp is still the 401 and the
\* pair ends.
W_ReauthCred(w) ==
  LET Goes(l) ==
        IF l.wpc = "reauth_user"
        THEN (IF user_var THEN [l EXCEPT !.wpc = "reauth_pass"]
              ELSE Skip(l, l.resp, l.cur))
        ELSE (IF pass_var THEN [l EXCEPT !.wpc = "reauth_auth_user"]
              ELSE Skip(l, l.resp, l.cur))
  IN /\ worker[w].wpc \in {"reauth_user", "reauth_pass"}
     /\ TkServes
     /\ Step(w, Goes(worker[w]))
     /\ UNCHANGED <<storeVars, prevResult>>
     /\ WFrame

\* on 401: _get_session_cookie_for_host(..., interactive=False) up to
\* microfocus_logon: user and pw are read; None is returned when one is empty
W_ReauthAuthCred(w) ==
  LET Ends(l) == Skip([l EXCEPT !.usr = FALSE], l.resp, l.cur)
      Goes(l) ==
        IF l.wpc = "reauth_auth_user"
        THEN [l EXCEPT !.usr = user_var, !.wpc = "reauth_auth_pass"]
        ELSE (IF l.usr /\ pass_var THEN [l EXCEPT !.usr = FALSE, !.wpc = "reauth"]
              ELSE Ends(l))
  IN /\ worker[w].wpc \in {"reauth_auth_user", "reauth_auth_pass"}
     /\ TkServes
     /\ Step(w, Goes(worker[w]))
     /\ UNCHANGED <<storeVars, prevResult>>
     /\ WFrame

\* ... microfocus_logon answers
W_ReauthCall(w) ==
  LET Called(l, out) ==
        [l EXCEPT !.wauth = out, !.wpc = "reauth_ret",
                  !.sweepCalls = CountAuth(l),
                  !.cur = [@ EXCEPT !.auths = @ + 1, !.authOk = (out.kind = "ok")]]
  IN /\ alive
     /\ worker[w].wpc = "reauth"
     /\ \E out \in AuthOutcomes :
          /\ Logon(CurHost(worker[w]), out)
          /\ Step(w, Called(worker[w], out))
     /\ UNCHANGED <<session_cookies, session_cookie, logon_headers, prevResult>>
     /\ WFrame

\* ... and the worker stores the cookie; with a cookie it goes on to the retry,
\* without one resp is still the 401 and the pair ends
W_ReauthReturn(w) ==
  LET Goes(l) ==
        IF GetCookieResult(l.wauth) # NoToken
        THEN [l EXCEPT !.cookie_val = GetCookieResult(l.wauth), !.wauth = NoAuth,
                       !.wpc = "retry"]
        ELSE Skip([l EXCEPT !.wauth = NoAuth, !.authFailed = TRUE], l.resp, l.cur)
  IN /\ alive
     /\ worker[w].wpc = "reauth_ret"
     /\ session_cookies' = GetCookieStore(session_cookies, CurHost(worker[w]),
                                          worker[w].wauth)
     /\ SetUi(GetCookieUi(FALSE, worker[w].wauth, Ui))
     /\ Step(w, Goes(worker[w]))
     /\ UNCHANGED <<configVars, parseVars, fieldVars, refreshVars, logoffVars, histVars, issuedFor>>
     /\ UNCHANGED <<busy, logged_in, afterQueue, alive, mpc, mhost, mauth, modal,
                    mstatus, tree>>

\* mutant: a 401 on the retry goes back to the authenticator (while for if)
W_RetryLoops(w) ==
  LET Sent(l, r) == [l EXCEPT !.lastReq = CurRequest(l),
                              !.sweepCalls = CountGet(l),
                              !.total_calls = CallsAfterRetry(@, r),
                              !.cur = [@ EXCEPT !.gets = @ + 1]]
      Goes(l, r) ==
        IF r.status = 401 THEN [l EXCEPT !.resp = r, !.wpc = "reauth"]
        ELSE IF r.status = 0 THEN Skip(l, r, l.cur)
        ELSE Settle(l, r, l.cur)
  IN /\ alive
     /\ worker[w].wpc = "retry"
     /\ \E r \in CurResponses(worker[w]) : Step(w, Goes(Sent(worker[w], r), r))
     /\ UNCHANGED <<storeVars, prevResult>>
     /\ WFrame

\* the retried requests.get, with the new cookie
W_Retry(w) ==
  LET Sent(l, r) == [l EXCEPT !.lastReq = CurRequest(l),
                              !.sweepCalls = CountGet(l),
                              !.total_calls = CallsAfterRetry(@, r),
                              !.cur = [@ EXCEPT !.gets = @ + 1]]
      Goes(l, r) ==
        IF r.status = 0 \/ r.status = 401 THEN Skip(l, r, l.cur)
        ELSE Settle(l, r, l.cur)
  IN /\ alive
     /\ worker[w].wpc = "retry"
     /\ \E r \in CurResponses(worker[w]) : Step(w, Goes(Sent(worker[w], r), r))
     /\ UNCHANGED <<storeVars, prevResult>>
     /\ WFrame

\* return {...}: all hosts were handled
W_Return(w) ==
  LET Returns(l) ==
        [l EXCEPT !.wpc = "after",
                  !.result = [kind |-> "ok", total_sum |-> l.total_sum,
                              total_calls |-> l.total_calls,
                              agg_pcts |-> l.agg_pcts,
                              agg_by_region |-> l.agg_by_region,
                              agg_by_host |-> l.agg_by_host]]
  IN /\ alive
     /\ worker[w].wpc = "host"
     /\ worker[w].hi > Len(host_mapping)
     /\ Step(w, Returns(worker[w]))
     /\ UNCHANGED <<storeVars, prevResult>>
     /\ WFrame

\* the locals of a thread that has ended
Exited == [NoLocals EXCEPT !.wpc = "exited"]

\* mutant: the completion is scheduled twice
W_AfterTwice(w) ==
  /\ worker[w].wpc = "after"
  /\ TkServes
  /\ afterQueue' = afterQueue \o <<worker[w].result, worker[w].result>>
  /\ prevResult' = IF Deterministic THEN worker[w].result ELSE prevResult
  /\ Step(w, Exited)
  /\ UNCHANGED <<configVars, parseVars, fieldVars, storeVars, refreshVars, logoffVars,
                 started, doneCount, logins>>
  /\ UNCHANGED <<busy, logged_in, alive, mpc, mhost, mauth, modal, mstatus, dialog,
                 tree, status>>

\* _start: self.after(0, ...) schedules the completion and the thread ends,
\* its locals with it
W_After(w) ==
  /\ worker[w].wpc = "after"
  /\ TkServes
  /\ afterQueue' = Append(afterQueue, worker[w].result)
  /\ prevResult' = IF Deterministic THEN worker[w].result ELSE prevResult
  /\ Step(w, Exited)
  /\ UNCHANGED <<configVars, parseVars, fieldVars, storeVars, refreshVars, logoffVars,
                 started, doneCount, logins>>
  /\ UNCHANGED <<busy, logged_in, alive, mpc, mhost, mauth, modal, mstatus, dialog,
                 tree, status>>

\* ------------------------------------------------------- main thread
\* the PCT names in ascending string order
NameOrder == <<"A", "B", "C", "PCT1">>

\* the empty name sorts first
NameRank(n) == IF n = "" THEN 0 ELSE CHOOSE i \in 1..Len(NameOrder) : NameOrder[i] = n

\* mutant: the key is the name alone
RowBeforeByName(d, a, b) == NameRank(a) < NameRank(b)

\* the sort key (-count, name): item a comes before item b
RowBefore(d, a, b) == d[a] > d[b] \/ (d[a] = d[b] /\ NameRank(a) < NameRank(b))

RECURSIVE SortedPcts(_)
\* sorted(agg_pcts.items(), key=lambda x: (-x[1], x[0]))
SortedPcts(d) ==
  IF DOMAIN d = {} THEN <<>>
  ELSE LET first == CHOOSE a \in DOMAIN d :
                      \A b \in (DOMAIN d) \ {a} : RowBefore(d, a, b)
       IN <<<<first, d[first]>>>>
            \o SortedPcts([x \in (DOMAIN d) \ {first} |-> d[x]])

\* worker thread w is between its start and its end; in each of these
\* positions one of its steps can be taken as soon as Tk answers
Running(w) == worker[w].wpc \notin {"idle", "exited"}

WorkerRuns == \E w \in Workers : Running(w)

\* the thread of the next sweep: the first that does not run (every press
\* can start one)
FreeWorker == CHOOSE w \in Workers : ~Running(w) /\ \A v \in Workers : v < w => Running(v)

\* a handler shows a messagebox and returns when it is closed, after setting
\* the status text st ("none": it sets none)
ShowAndReturn(title, st) ==
  /\ dialog' = title
  /\ mpc' = "dlg"
  /\ mstatus' = st

\* the messagebox of a handler is closed by the user: the handler sets its
\* status text, if any, and returns to the main loop.  A messagebox that
\* _consultar_todos_done opened meanwhile is closed first.
DialogClosed ==
  /\ mpc = "dlg"
  /\ modal = 0
  /\ mpc' = "idle"
  /\ status' = IF mstatus = "none" THEN status ELSE mstatus
  /\ mstatus' = "none"
  /\ UNCHANGED <<busy, logged_in, afterQueue, alive, mhost, mauth, modal, dialog, tree>>
  /\ UNCHANGED <<configVars, parseVars, fieldVars, storeVars, worker, histVars, refreshVars,
                 logoffVars>>

\* _set_busy(True) and the status: with the frames of the spinner GIF it
\* writes the text that names the file and the number of its frames
BusyStatus(st) == IF gif_frames THEN "Spinner GIF started" ELSE st

\* consultar_todos, pressed while the button is enabled: _set_busy(True)
\* and a new thread.  (host_mapping is never empty, so that the warning for
\* an empty mapping is never shown.)
ConsultarTodos ==
  /\ UserCan
  /\ ~busy
  /\ Presses < MaxPresses
  /\ busy' = TRUE
  /\ started' = started + 1
  /\ Step(FreeWorker, [NoLocals EXCEPT !.wpc = "host"])
  /\ status' = BusyStatus(status)
  /\ UNCHANGED <<logged_in, afterQueue, alive, mpc, mhost, mauth, modal, mstatus,
                 dialog, tree>>
  /\ UNCHANGED <<configVars, parseVars, fieldVars, storeVars, refreshVars, logoffVars,
                 doneCount, logins, prevResult>>

\* ... pressed when the thread of the sweep before has ended
ConsultarTodosAlone == ~WorkerRuns /\ ConsultarTodos

\* The event loop runs the scheduled lambda: _consultar_todos_done(result).
\* For an error result and for a total of 0 it shows a messagebox and calls
\* _set_busy(False) when that is closed; otherwise it fills the table, sets
\* the status and calls _set_busy(False).
ConsultarTodosDone ==
  LET Shows(r) == r.kind = "error" \/ r.total_sum = 0
      Title(r) == IF r.kind = "error" THEN "Error" ELSE "Resultados"
      Runs(r) ==
        IF Shows(r)
        THEN /\ dialog' = Title(r)
             /\ modal' = modal + 1
             /\ UNCHANGED <<busy, tree, status>>
        ELSE /\ tree' = SortedPcts(r.agg_pcts)
             /\ status' = "Consultar todos"
             /\ busy' = FALSE
             /\ UNCHANGED <<dialog, modal>>
  IN /\ TkServes
     /\ afterQueue # <<>>
     /\ afterQueue' = Tail(afterQueue)
     /\ doneCount' = doneCount + 1
     /\ Runs(Head(afterQueue))
     /\ UNCHANGED <<logged_in, alive, mpc, mhost, mauth, mstatus>>
     /\ UNCHANGED <<configVars, parseVars, fieldVars, storeVars, worker, refreshVars, logoffVars,
                    started, logins, prevResult>>

\* the messagebox of _consultar_todos_done is closed: _set_busy(False)
DoneDialogClosed ==
  /\ modal > 0
  /\ modal' = modal - 1
  /\ busy' = FALSE
  /\ UNCHANGED <<logged_in, afterQueue, alive, mpc, mhost, mauth, mstatus, dialog,
                 tree, status>>
  /\ UNCHANGED <<configVars, parseVars, fieldVars, storeVars, worker, histVars, refreshVars,
                 logoffVars>>

\* What the user can have left in the Host, Port and Region fields before a
\* handler runs: anything while the controls are enabled; while they are
\* disabled and hidden, what the variables hold.
HostEntered(h) == logged_in \/ h = host_var

PortEntered(p) == logged_in \/ p = port_var

RegionEntered(r) == logged_in \/ r = region_var

\* login() pressed, up to the answer of microfocus_logon.  typed is the host
\* in the Host field ("none": empty) and ported tells whether the Port field
\* is filled in.  With one of them missing the first mapped host and its port
\* stand in for what is missing, both fields are set and the status names
\* them.  Without user or password _get_session_cookie_for_host warns and
\* returns None.
LoginCall(typed, ported) ==
  LET given == typed # "none" /\ ported
      host == IF typed # "none" THEN typed ELSE FirstHost
  IN /\ UserCan
     /\ HostEntered(typed)
     /\ PortEntered(ported)
     /\ Presses < MaxPresses
     /\ logins' = logins + 1
     /\ status' = IF given THEN status ELSE "Logon usando"
     /\ host_var' = host
     /\ port_var' = TRUE
     /\ IF ~credentials
        THEN /\ ShowAndReturn("Missing", "none")
             /\ UNCHANGED <<mhost, mauth, issuedFor>>
        ELSE /\ \E out \in AuthOutcomes : Logon(host, out) /\ mauth' = out
             /\ mhost' = host
             /\ mpc' = "login_ret"
             /\ UNCHANGED <<dialog, mstatus>>
     /\ UNCHANGED <<busy, logged_in, afterQueue, alive, modal, tree>>
     /\ UNCHANGED <<started, doneCount, prevResult>>
     /\ UNCHANGED <<configVars, parseVars, credVars, region_var, refreshVars, logoffVars,
                    worker, session_cookies, session_cookie, logon_headers>>

\* login after _get_session_cookie_for_host gave out: with a cookie
\* _set_ui_logged_in(True) enables the controls and the button of the sweep
LoginButtons(out) ==
  /\ busy' = IF out.kind = "ok" THEN FALSE ELSE busy
  /\ logged_in' = IF out.kind = "ok" THEN TRUE ELSE logged_in

\* login: _get_session_cookie_for_host(host, port, interactive=True) after
\* microfocus_logon, and the rest of login; a logon that raised is reported
\* in a messagebox.  With a cookie the Host and Port fields are emptied;
\* without one they keep the host and the port of the attempt.
LoginReturn ==
  /\ mpc = "login_ret"
  /\ host_var' = IF mauth.kind = "ok" THEN "none" ELSE host_var
  /\ port_var' = IF mauth.kind = "ok" THEN FALSE ELSE port_var
  /\ mpc' = IF ShowsError(mauth) THEN "dlg" ELSE "idle"
  /\ mauth' = NoAuth
  /\ session_cookies' = GetCookieStore(session_cookies, mhost, mauth)
  /\ SetUi(GetCookieUi(TRUE, mauth, Ui))
  /\ LoginButtons(mauth)
  /\ mhost' = "none"
  /\ UNCHANGED <<afterQueue, alive, modal, mstatus, tree>>
  /\ UNCHANGED <<configVars, parseVars, credVars, region_var, refreshVars, logoffVars,
                 issuedFor, worker, histVars>>

\* clear_table, pressed while btn_clear is enabled
ClearTable ==
  /\ UserCan
  /\ logged_in
  /\ tree' = <<>>
  /\ UNCHANGED <<busy, logged_in, afterQueue, alive, mpc, mhost, mauth, modal,
                 mstatus, dialog, status>>
  /\ UNCHANGED <<configVars, parseVars, fieldVars, storeVars, worker, histVars, refreshVars,
                 logoffVars>>

\* the user changes the user and password fields: each is left filled (u,
\* p) or empty
EditCredentials(u, p) ==
  /\ UserCan
  /\ <<u, p>> # <<user_var, pass_var>>
  /\ user_var' = u
  /\ pass_var' = p
  /\ UNCHANGED <<configVars, parseVars, targetVars, storeVars, worker, mainVars,
                 histVars, refreshVars, logoffVars>>

\* logoff pressed: without an interactive session it only informs;
\* otherwise microfocus_logoff is called with the interactive session's
\* headers and cookie, and the main thread waits for it
LogoffCall ==
  /\ UserCan
  /\ Presses < MaxPresses
  /\ logoffs' = logoffs + 1
  /\ IF session_cookie = NoToken \/ logon_headers = 0
     THEN ShowAndReturn("Info", "none")
     ELSE mpc' = "logoff" /\ UNCHANGED <<dialog, mstatus>>
  /\ UNCHANGED <<busy, logged_in, afterQueue, alive, mhost, mauth, modal, tree, status>>
  /\ UNCHANGED <<configVars, parseVars, fieldVars, storeVars, refreshVars, loggedOff,
                 worker, histVars>>

\* microfocus_logoff is over.  When it raised the error is shown; when it
\* returned the interactive session fields, the fields of the form (user and
\* password among them) and the table are cleared and
\* _set_ui_logged_in(False) disables the controls.
LogoffReturn ==
  /\ mpc = "logoff"
  /\ \E ok \in BOOLEAN :
       IF ok
       THEN /\ logon_headers' = 0
            /\ session_cookie' = NoToken
            /\ status' = "Logoff realizado"
            /\ user_var' = FALSE
            /\ pass_var' = FALSE
            /\ host_var' = "none"
            /\ port_var' = FALSE
            /\ region_var' = "none"
            /\ tree' = <<>>
            /\ loggedOff' = loggedOff \cup {session_cookie}
            /\ busy' = TRUE
            /\ logged_in' = FALSE
            /\ mpc' = "idle"
            /\ UNCHANGED <<dialog, mstatus>>
       ELSE /\ ShowAndReturn("Logoff error", "none")
            /\ UNCHANGED <<session_cookie, logon_headers, status, tree, loggedOff,
                           busy, logged_in, fieldVars>>
  /\ UNCHANGED <<session_cookies, issuedFor, logoffs>>
  /\ UNCHANGED <<afterQueue, alive, mhost, mauth, modal>>
  /\ UNCHANGED <<configVars, parseVars, refreshVars, worker, histVars>>

\* the user closes the window: mainloop() and with it main() return and the
\* process ends, the daemon threads of running sweeps with it
Destroy ==
  /\ UserCan
  /\ alive' = FALSE
  /\ UNCHANGED <<busy, logged_in, afterQueue, mpc, mhost, mauth, modal, mstatus,
                 dialog, tree, status>>
  /\ UNCHANGED <<configVars, parseVars, fieldVars, storeVars, worker, histVars, refreshVars,
                 logoffVars>>

\* ------------------------------------------------------- refresh, region 'All'
\* self.host_mapping.get(host): host h has an entry
Mapped(h) == \E i \in 1..Len(host_mapping) : host_mapping[i].host = h

\* ... and the regions of its entry
RegionsOf(h) ==
  IF Mapped(h)
  THEN host_mapping[CHOOSE i \in 1..Len(host_mapping) : host_mapping[i].host = h].regions
  ELSE <<>>

RRegions == RegionsOf(mhost)

RRegion == RRegions[rri]

RECURSIVE RFoldPcts(_, _)
\* the loop over pcts of refresh 'All': every record that is a JSON object is
\* added under its name, the empty name included
RFoldPcts(pcts, acc) ==
  IF pcts = <<>> THEN acc
  ELSE LET pct == Head(pcts)
           cnt == ParseCount(CntOrZero(pct))
       IN IF ~pct.dict THEN RFoldPcts(Tail(pcts), acc)
          ELSE RFoldPcts(Tail(pcts),
                 [agg_pcts |-> DictSet(acc.agg_pcts, pct.PCTName,
                                       DictGet(acc.agg_pcts, pct.PCTName, 0) + cnt),
                  total_sum |-> acc.total_sum + cnt,
                  region_sum |-> acc.region_sum + cnt])

\* continue: on to the next region, or past the loop to the presentation of
\* the aggregation: a messagebox when the total is 0, else the rows and the
\* summary.  acc and failed are the accumulators and failed_regions as the
\* region leaves them, ui what the step wrote to the window so far.
RNext(acc, failed, ui) ==
  /\ racc' = acc
  /\ failed_regions' = failed
  /\ mstatus' = "none"
  /\ logon_headers' = ui.logon_headers
  /\ session_cookie' = ui.session_cookie
  /\ IF rri < Len(RRegions)
     THEN /\ rri' = rri + 1
          /\ mpc' = "r_get"
          /\ mhost' = mhost
          /\ tree' = tree
          /\ rpass' = rpass
          /\ dialog' = ui.dialog
          /\ status' = ui.status
     ELSE /\ rri' = 1
          /\ rpass' = [rpass EXCEPT !.phase = "ended"]
          /\ mhost' = "none"
          /\ IF acc.total_sum = 0
             THEN /\ mpc' = "dlg"
                  /\ dialog' = "Resultados"
                  /\ status' = ui.status
                  /\ tree' = tree
             ELSE /\ mpc' = "idle"
                  /\ dialog' = ui.dialog
                  /\ status' = "All"
                  /\ tree' = SortedPcts(acc.agg_pcts)

\* an exception leaves refresh: the handler ends where it is
RRaise(acc, failed, ui) ==
  /\ racc' = acc
  /\ failed_regions' = failed
  /\ rri' = 1
  /\ rpass' = [rpass EXCEPT !.phase = "raised"]
  /\ mpc' = "idle"
  /\ mhost' = "none"
  /\ mstatus' = "none"
  /\ tree' = tree
  /\ SetUi(ui)

\* the loop body from the 2xx test on, for the region's last response r
RSettle(acc, r, ui) ==
  IF r.status < 200 \/ r.status >= 300
  THEN RNext(acc, Append(failed_regions, RRegion), ui)
  ELSE IF r.body = "notjson" THEN RNext(acc, failed_regions, ui)
  ELSE IF r.body \in {"nopcts", "titled", "empty", "emptylist"}
  THEN RNext([acc EXCEPT !.region_counts = DictSet(@, RRegion, 0)], failed_regions, ui)
  ELSE IF r.body = "scalar" THEN RRaise(acc, failed_regions, ui)
  ELSE LET pcts == IF r.body = "text" THEN <<NotADict, NotADict>> ELSE r.pcts
           f == RFoldPcts(pcts, [agg_pcts |-> acc.agg_pcts,
                                 total_sum |-> acc.total_sum, region_sum |-> 0])
       IN RNext([agg_pcts |-> f.agg_pcts, total_sum |-> f.total_sum,
                 total_calls |-> acc.total_calls,
                 region_counts |-> DictSet(acc.region_counts, RRegion, f.region_sum)],
                failed_regions, ui)

\* what no step of refresh touches: the worker threads and their queue, the
\* fields of the form, the messageboxes of _consultar_todos_done
RFrame ==
  UNCHANGED <<configVars, parseVars, fieldVars, worker, logoffVars, afterQueue, alive, modal,
              started, doneCount, logins, prevResult, sregion, refreshes>>

\* what a step of refresh leaves alone unless a login is part of it
RQuiet == UNCHANGED <<busy, logged_in, session_cookie, logon_headers>>

\* the locals of refresh 'All' that only the loop writes
RLoop == UNCHANGED <<lastReq, rri, rauto, rresp, racc, failed_regions, rcur, rpass>>

\* refresh finds no host, or no regions to go through: it warns and returns
RWarns(title) ==
  /\ ShowAndReturn(title, "none")
  /\ UNCHANGED <<mhost, mauth, status, tree, rcookie, session_cookies, issuedFor>>
  /\ RLoop
  /\ RQuiet

\* Refresh with region 'All' and host h in the Host field ("none": empty), up
\* to the first call that blocks.  An empty field, a host without an entry
\* and one without regions end in a warning; with a host an empty Port field
\* is filled in.  Otherwise the store is read:
\* with a cookie the loop begins; without one and with user and password the
\* non-interactive logon is next; with only one of the two login(host, port)
\* is called and warns of the missing one.
R_Start(h) ==
  /\ UserCan
  /\ HostEntered(h)
  /\ RegionEntered("All")
  /\ Presses < MaxPresses
  /\ refreshes' = refreshes + 1
  /\ host_var' = h
  /\ port_var' = IF h = "none" THEN port_var ELSE TRUE
  /\ region_var' = "All"
  /\ IF h = "none" THEN RWarns("Faltan valores")
     ELSE IF ~Mapped(h) THEN RWarns("Sin mapping")
     ELSE IF RegionsOf(h) = <<>> THEN RWarns("Sin regiones")
     ELSE /\ mhost' = h
          /\ rpass' = [host |-> h, phase |-> "running", renewed |-> NoToken]
          /\ status' = "Consultando"
          /\ racc' = NoRefreshAcc
          /\ failed_regions' = <<>>
          /\ rri' = 1
          /\ rcur' = NoExchange
          /\ rauto' = NoToken
          /\ rresp' = NoResponse
          /\ rcookie' = DictGet(session_cookies, h, NoToken)
          /\ mstatus' = "none"
          /\ IF DictGet(session_cookies, h, NoToken) # NoToken \/ (~user_var /\ ~pass_var)
             THEN mpc' = "r_get" /\ dialog' = dialog
             ELSE IF credentials
             THEN mpc' = "r_pre" /\ dialog' = dialog
             ELSE mpc' = "r_prelogin_dlg" /\ dialog' = "Missing"
          /\ UNCHANGED <<mauth, tree, lastReq, session_cookies, issuedFor>>
          /\ RQuiet
  /\ UNCHANGED <<configVars, parseVars, credVars, worker, logoffVars, afterQueue, alive,
                 modal, started, doneCount, logins, prevResult, sregion>>

\* microfocus_logon, called for the host of the refresh from position at,
\* answers; the answer is looked at in position ret
RLogonCall(at, ret) ==
  /\ mpc = at
  /\ \E out \in AuthOutcomes : Logon(mhost, out) /\ mauth' = out
  /\ mpc' = ret
  /\ UNCHANGED <<mhost, mstatus, dialog, tree, status, session_cookies, rcookie>>
  /\ UNCHANGED <<lastReq, rri, rauto, rresp, racc, failed_regions, rpass>>
  /\ RQuiet
  /\ RFrame

\* _get_session_cookie_for_host(host, port, interactive=False) before the
\* loop: microfocus_logon answers
R_PreAuthCall == RLogonCall("r_pre", "r_pre_ret") /\ rcur' = rcur

\* ... the cookie is stored; with it the loop begins, without it
\* login(host, port) is called, which calls microfocus_logon again
R_PreAuthReturn ==
  /\ mpc = "r_pre_ret"
  /\ session_cookies' = GetCookieStore(session_cookies, mhost, mauth)
  /\ SetUi(GetCookieUi(FALSE, mauth, Ui))
  /\ rcookie' = GetCookieResult(mauth)
  /\ mpc' = IF GetCookieResult(mauth) = NoToken THEN "r_prelogin" ELSE "r_get"
  /\ mauth' = NoAuth
  /\ UNCHANGED <<mhost, mstatus, tree, issuedFor, busy, logged_in>>
  /\ RLoop
  /\ RFrame

\* login(host, port) before the loop: microfocus_logon answers
R_PreLoginCall == RLogonCall("r_prelogin", "r_prelogin_ret") /\ rcur' = rcur

\* ... a logon that raised is reported in a messagebox; otherwise login
\* returns and the store is read again
R_PreLoginReturn ==
  /\ mpc = "r_prelogin_ret"
  /\ session_cookies' = GetCookieStore(session_cookies, mhost, mauth)
  /\ SetUi(GetCookieUi(TRUE, mauth, Ui))
  /\ LoginButtons(mauth)
  /\ rcookie' = IF ShowsError(mauth) THEN rcookie
                ELSE DictGet(GetCookieStore(session_cookies, mhost, mauth), mhost, NoToken)
  /\ mpc' = IF ShowsError(mauth) THEN "r_prelogin_dlg" ELSE "r_get"
  /\ mauth' = NoAuth
  /\ UNCHANGED <<mhost, mstatus, tree, issuedFor>>
  /\ RLoop
  /\ RFrame

\* the messagebox of that login is closed: login returns and the store is
\* read again
R_PreLoginClosed ==
  /\ mpc = "r_prelogin_dlg"
  /\ modal = 0
  /\ alive
  /\ rcookie' = DictGet(session_cookies, mhost, NoToken)
  /\ mpc' = "r_get"
  /\ UNCHANGED <<mhost, mauth, mstatus, dialog, tree, status, session_cookies, issuedFor>>
  /\ RLoop
  /\ RQuiet
  /\ RFrame

\* The first GET of the region, with cookie_val or the stored cookie, and
\* what follows it up to the next call that blocks.  On 401 the
\* non-interactive logon is next when user and password are filled in;
\* otherwise login(host, port) is called and warns of the missing one.
R_Get ==
  /\ mpc = "r_get"
  /\ LET cookie_to_use == IF rcookie # NoToken THEN rcookie
                          ELSE DictGet(session_cookies, mhost, NoToken)
         counted == [racc EXCEPT !.total_calls = @ + 1]
     IN /\ lastReq' = [host |-> mhost, region |-> RRegion, cookie |-> cookie_to_use]
        /\ rauto' = NoToken
        /\ \E r \in answers[mhost][RRegion] :
             IF r = Transport
             THEN /\ RNext(racc, Append(failed_regions, RRegion), Ui)
                  /\ rresp' = NoResponse
                  /\ rcur' = [gets |-> 1, auths |-> 0]
             ELSE IF r.status = 401
             THEN /\ rresp' = r
                  /\ racc' = counted
                  /\ IF credentials
                     THEN /\ mpc' = "r_reauth"
                          /\ rcur' = [gets |-> 1, auths |-> 0]
                          /\ dialog' = dialog
                     ELSE /\ mpc' = "r_login_dlg"
                          /\ rcur' = [gets |-> 1, auths |-> 1]
                          /\ dialog' = "Missing"
                  /\ UNCHANGED <<failed_regions, rri, rpass, mhost, mstatus, tree, status,
                                 logon_headers, session_cookie>>
             ELSE /\ RSettle(counted, r, Ui)
                  /\ rresp' = NoResponse
                  /\ rcur' = [gets |-> 1, auths |-> 0]
  /\ UNCHANGED <<mauth, session_cookies, issuedFor, rcookie, busy, logged_in>>
  /\ RFrame

\* on 401: _get_session_cookie_for_host(host, port, interactive=False):
\* microfocus_logon answers
R_ReauthCall ==
  /\ RLogonCall("r_reauth", "r_reauth_ret")
  /\ rcur' = [rcur EXCEPT !.auths = @ + 1]

\* ... the cookie is stored; with it the GET is repeated, without it resp
\* is still the 401 and login(host, port) is called
R_ReauthReturn ==
  /\ mpc = "r_reauth_ret"
  /\ session_cookies' = GetCookieStore(session_cookies, mhost, mauth)
  /\ SetUi(GetCookieUi(FALSE, mauth, Ui))
  /\ rauto' = GetCookieResult(mauth)
  /\ rpass' = [rpass EXCEPT !.renewed = IF mauth.kind = "ok" THEN mauth.tok ELSE @]
  /\ mpc' = IF GetCookieResult(mauth) = NoToken THEN "r_login" ELSE "r_retry"
  /\ mauth' = NoAuth
  /\ UNCHANGED <<mhost, mstatus, tree, issuedFor, busy, logged_in>>
  /\ UNCHANGED <<lastReq, rri, rcookie, rresp, racc, failed_regions, rcur>>
  /\ RFrame

\* the GET repeated with auto_cookie; a 401 again leads to login(host, port)
R_Retry ==
  /\ mpc = "r_retry"
  /\ lastReq' = [host |-> mhost, region |-> RRegion, cookie |-> rauto]
  /\ rcur' = [rcur EXCEPT !.gets = @ + 1]
  /\ \E r \in answers[mhost][RRegion] :
       IF r = Transport
       THEN /\ RNext(racc, failed_regions, Ui)
            /\ rresp' = NoResponse
       ELSE IF r.status = 401
       THEN /\ mpc' = "r_login"
            /\ rresp' = r
            /\ UNCHANGED <<racc, failed_regions, rri, rpass, mhost, mstatus, tree,
                           dialog, status, logon_headers, session_cookie>>
       ELSE /\ RSettle(racc, r, Ui)
            /\ rresp' = NoResponse
  /\ UNCHANGED <<mauth, session_cookies, issuedFor, rcookie, rauto, busy, logged_in>>
  /\ RFrame

\* the response is still 401 and refresh was not called with retry:
\* self.login(host, port): microfocus_logon answers
R_LoginCall ==
  /\ RLogonCall("r_login", "r_login_ret")
  /\ rcur' = [rcur EXCEPT !.auths = @ + 1]

\* login(host, port) has returned and the store, in which it left cookies,
\* is read again: with a cookie the GET is repeated, without one the region
\* is left; ui is what login wrote to the window
RLoginOver(cookies, ui) ==
  /\ rcookie' = DictGet(cookies, mhost, NoToken)
  /\ IF DictGet(cookies, mhost, NoToken) # NoToken
     THEN /\ mpc' = "r_retry2"
          /\ SetUi(ui)
          /\ UNCHANGED <<racc, failed_regions, rri, mhost, mstatus, tree, rresp, rpass>>
     ELSE /\ RNext(racc, failed_regions, ui)
          /\ rresp' = NoResponse

\* ... a logon that raised is reported in a messagebox; otherwise login
\* returns
R_LoginReturn ==
  /\ mpc = "r_login_ret"
  /\ session_cookies' = GetCookieStore(session_cookies, mhost, mauth)
  /\ LoginButtons(mauth)
  /\ mauth' = NoAuth
  /\ IF ShowsError(mauth)
     THEN /\ mpc' = "r_login_dlg"
          /\ SetUi(GetCookieUi(TRUE, mauth, Ui))
          /\ UNCHANGED <<rcookie, racc, failed_regions, rri, mhost, mstatus, tree, rresp,
                         rpass>>
     ELSE IF mauth.kind = "ok"
     THEN /\ mpc' = "r_retry2"
          /\ SetUi(GetCookieUi(TRUE, mauth, Ui))
          /\ rcookie' = mauth.tok
          /\ rpass' = [rpass EXCEPT !.renewed = mauth.tok]
          /\ UNCHANGED <<racc, failed_regions, rri, mhost, mstatus, tree, rresp>>
     ELSE RLoginOver(session_cookies, GetCookieUi(TRUE, mauth, Ui))
  /\ UNCHANGED <<issuedFor, lastReq, rauto, rcur>>
  /\ RFrame

\* the messagebox of that login is closed: login returns
R_LoginClosed ==
  /\ mpc = "r_login_dlg"
  /\ modal = 0
  /\ alive
  /\ RLoginOver(session_cookies, Ui)
  /\ UNCHANGED <<mauth, session_cookies, issuedFor, busy, logged_in>>
  /\ UNCHANGED <<lastReq, rauto, rcur>>
  /\ RFrame

\* the GET repeated with the cookie found in the store after login
R_Retry2 ==
  /\ mpc = "r_retry2"
  /\ lastReq' = [host |-> mhost, region |-> RRegion, cookie |-> rcookie]
  /\ rcur' = [rcur EXCEPT !.gets = @ + 1]
  /\ rresp' = NoResponse
  /\ \E r \in answers[mhost][RRegion] :
       IF r = Transport THEN RNext(racc, failed_regions, Ui)
       ELSE RSettle(racc, r, Ui)
  /\ UNCHANGED <<mauth, session_cookies, issuedFor, rcookie, rauto, busy, logged_in>>
  /\ RFrame

\* ------------------------------------------------- refresh of one region
\* the table row made of a record: the raw name and the raw count
SRow(pct) == <<pct.PCTName, pct.PCTCnt>>

RECURSIVE SRows(_)
\* the rows inserted before the loop over pcts ends or an element that is
\* no JSON object raises
SRows(pcts) ==
  IF pcts = <<>> \/ ~Head(pcts).dict THEN <<>>
  ELSE <<SRow(Head(pcts))>> \o SRows(Tail(pcts))

\* the PCTs value of a decoded body
SPcts(r) == IF r.body = "text" THEN <<NotADict, NotADict>> ELSE r.pcts

\* the loop over pcts raises: pcts is no list, or an element has no get
SRaises(r) ==
  \/ r.body = "scalar"
  \/ \E i \in 1..Len(SPcts(r)) : ~SPcts(r)[i].dict

\* what refresh does with an answer: shown tells that it opens the
\* messagebox dialog and sets status when that is closed, raised that an
\* exception leaves the function; tree is the table it leaves
Shown(title, st, rows) ==
  [shown |-> TRUE, dialog |-> title, status |-> st, tree |-> rows, raised |-> FALSE]

\* refresh from the 404 test on, for a response r that is not 401.  (A 404
\* whose body is "nopcts" is a JSON object; a JSON scalar or list with a 404
\* is handled like a body that is no JSON.)
SOutcome(r) ==
  IF r.status = 404
  THEN (IF r.body = "titled" THEN Shown("ErrorTitle", "404 - ErrorTitle", tree)
        ELSE IF r.body \in {"nopcts", "empty", "scalar", "text"}
        THEN Shown("HTTP 404", "404 - HTTP 404", tree)
        ELSE Shown("HTTP 404", "404 - Not Found", tree))
  ELSE IF r.body = "notjson"
  THEN Shown("Respuesta invalida", "JSON decode error", tree)
  ELSE IF r.status < 200 \/ r.status >= 300
  THEN Shown("Error HTTP", "Error", tree)
  ELSE IF r.body \in {"nopcts", "titled", "empty"}
  THEN Shown("Sin datos", "No data", <<>>)
  ELSE IF SRaises(r)
  THEN [shown |-> FALSE, dialog |-> dialog, status |-> status,
        tree |-> SRows(SPcts(r)), raised |-> TRUE]
  ELSE [shown |-> FALSE, dialog |-> dialog, status |-> "registros",
        tree |-> SRows(SPcts(r)), raised |-> FALSE]

\* except Timeout / except RequestException around the request
STransport(timeout) ==
  IF timeout THEN Shown("Timeout", "Timeout", tree)
  ELSE Shown("Request error", "Request error", tree)

\* what no step of the refresh of one region touches
SFrame ==
  UNCHANGED <<configVars, parseVars, fieldVars, worker, logoffVars, afterQueue, alive, modal,
              started, doneCount, logins, prevResult, refreshes,
              rri, rcookie, rauto, racc, failed_regions, rpass>>

\* what a step of it leaves alone unless a login is part of it
SQuiet ==
  UNCHANGED <<busy, logged_in, session_cookies, session_cookie, logon_headers,
              issuedFor, mauth>>

\* the handler returns (or an exception leaves it) with the window as o
\* says; when it shows a messagebox it returns after that is closed
SEnd(o) ==
  /\ mhost' = "none"
  /\ sregion' = "none"
  /\ tree' = o.tree
  /\ dialog' = o.dialog
  /\ IF o.shown
     THEN mpc' = "dlg" /\ mstatus' = o.status /\ status' = status
     ELSE mpc' = "idle" /\ mstatus' = "none" /\ status' = o.status

\* refresh has no host or no region to ask for: it warns and returns
SWarns(title) ==
  /\ ShowAndReturn(title, "none")
  /\ UNCHANGED <<mhost, sregion, status, rcur, rresp>>

\* refresh goes on to the request for region r of host h
SBegins(h, r) ==
  /\ mhost' = h
  /\ sregion' = r
  /\ status' = "Consultando"
  /\ mpc' = "s_get"
  /\ rcur' = NoExchange
  /\ rresp' = NoResponse
  /\ UNCHANGED <<dialog, mstatus>>

\* Refresh with host h in the Host field and region r in the Region field
\* ("none": empty), up to the request.  Without a host it warns; with one an
\* empty Port field is filled in.  Without a region it takes the first
\* region mapped for the host and puts it into the field; when none is
\* mapped it takes the first value of the Region list, which is 'All' and
\* leads to the warnings of the 'All' branch, and warns when the list is
\* empty.  The list is filled (listed) when a host is selected, which takes
\* enabled controls, and is emptied by logoff.
S_Start(h, r) ==
  /\ UserCan
  /\ HostEntered(h)
  /\ RegionEntered(r)
  /\ Presses < MaxPresses
  /\ refreshes' = refreshes + 1
  /\ host_var' = h
  /\ port_var' = IF h = "none" THEN port_var ELSE TRUE
  /\ IF h = "none" THEN SWarns("Faltan valores") /\ region_var' = r
     ELSE IF r # "none" THEN SBegins(h, r) /\ region_var' = r
     ELSE IF RegionsOf(h) # <<>>
     THEN SBegins(h, RegionsOf(h)[1]) /\ region_var' = RegionsOf(h)[1]
     ELSE \E listed \in {FALSE, logged_in} :
            /\ SWarns(IF ~listed THEN "Faltan valores"
                      ELSE IF Mapped(h) THEN "Sin regiones" ELSE "Sin mapping")
            /\ region_var' = IF listed THEN "All" ELSE "none"
  /\ UNCHANGED <<tree, lastReq>>
  /\ SQuiet
  /\ UNCHANGED <<configVars, parseVars, credVars, worker, logoffVars, afterQueue, alive,
                 modal, started, doneCount, logins, prevResult,
                 rri, rcookie, rauto, racc, failed_regions, rpass>>

\* The GET with the interactive session's cookie and the rest of refresh,
\* up to the next call that blocks.  On 401, retry being False,
\* self.login(host, port) is called: with user and password microfocus_logon
\* is next, otherwise login warns of the missing one.
S_Get ==
  /\ mpc = "s_get"
  /\ lastReq' = [host |-> mhost, region |-> sregion, cookie |-> session_cookie]
  /\ \E r \in answers[mhost][sregion] :
       /\ rresp' = r
       /\ IF r = Transport
          THEN /\ \E timeout \in BOOLEAN : SEnd(STransport(timeout))
               /\ rcur' = [rcur EXCEPT !.gets = @ + 1]
          ELSE IF r.status = 401
          THEN /\ IF credentials
                  THEN /\ mpc' = "s_login"
                       /\ rcur' = [rcur EXCEPT !.gets = @ + 1]
                       /\ dialog' = dialog
                  ELSE /\ mpc' = "s_login_dlg"
                       /\ rcur' = [gets |-> rcur.gets + 1, auths |-> rcur.auths + 1]
                       /\ dialog' = "Missing"
               /\ UNCHANGED <<mhost, sregion, tree, status, mstatus>>
          ELSE /\ SEnd(SOutcome(r))
               /\ rcur' = [rcur EXCEPT !.gets = @ + 1]
  /\ SQuiet
  /\ SFrame

\* login(host, port): microfocus_logon answers
S_LoginCall ==
  /\ mpc = "s_login"
  /\ \E out \in AuthOutcomes : Logon(mhost, out) /\ mauth' = out
  /\ mpc' = "s_login_ret"
  /\ rcur' = [rcur EXCEPT !.auths = @ + 1]
  /\ UNCHANGED <<mhost, sregion, mstatus, dialog, tree, status, lastReq, rresp>>
  /\ UNCHANGED <<busy, logged_in, session_cookies, session_cookie, logon_headers>>
  /\ SFrame

\* login has returned: with an interactive session cookie
\* refresh(retry=True) starts, else the status tells the 401
SLoginOver(cookie, st) ==
  IF cookie # NoToken
  THEN /\ mpc' = "s_retry"
       /\ status' = "Consultando"
       /\ UNCHANGED <<mhost, sregion>>
  ELSE /\ mpc' = "idle"
       /\ status' = "401 - No active session"
       /\ mhost' = "none"
       /\ sregion' = "none"

\* ... the cookie is stored and the interactive session replaced; a logon
\* that raised is reported in a messagebox, otherwise login returns
S_LoginReturn ==
  /\ mpc = "s_login_ret"
  /\ session_cookies' = GetCookieStore(session_cookies, mhost, mauth)
  /\ logon_headers' = GetCookieUi(TRUE, mauth, Ui).logon_headers
  /\ session_cookie' = GetCookieUi(TRUE, mauth, Ui).session_cookie
  /\ dialog' = GetCookieUi(TRUE, mauth, Ui).dialog
  /\ LoginButtons(mauth)
  /\ mauth' = NoAuth
  /\ IF ShowsError(mauth)
     THEN /\ mpc' = "s_login_dlg"
          /\ UNCHANGED <<mhost, sregion, status>>
     ELSE SLoginOver(GetCookieUi(TRUE, mauth, Ui).session_cookie, status)
  /\ UNCHANGED <<issuedFor, mstatus, tree, lastReq, rresp, rcur>>
  /\ SFrame

\* the messagebox of that login is closed: login returns
S_LoginClosed ==
  /\ mpc = "s_login_dlg"
  /\ modal = 0
  /\ alive
  /\ SLoginOver(session_cookie, status)
  /\ UNCHANGED <<mstatus, dialog, tree, lastReq, rresp, rcur>>
  /\ SQuiet
  /\ SFrame

\* mutant: a 401 to the repeated request leads to another login
S_RetryLogsInAgain ==
  /\ mpc = "s_retry"
  /\ lastReq' = [host |-> mhost, region |-> sregion, cookie |-> session_cookie]
  /\ rcur' = [rcur EXCEPT !.gets = @ + 1]
  /\ \E r \in answers[mhost][sregion] :
       /\ rresp' = r
       /\ IF r = Transport THEN \E timeout \in BOOLEAN : SEnd(STransport(timeout))
          ELSE IF r.status = 401
          THEN /\ mpc' = "s_login"
               /\ UNCHANGED <<mhost, sregion, tree, dialog, status, mstatus>>
          ELSE SEnd(SOutcome(r))
  /\ SQuiet
  /\ SFrame

\* refresh(retry=True): the GET again; a 401 ends with the status, and an
\* exception that leaves the inner call is swallowed by the outer one, which
\* then sets the status of the 401
S_Retry ==
  /\ mpc = "s_retry"
  /\ lastReq' = [host |-> mhost, region |-> sregion, cookie |-> session_cookie]
  /\ rcur' = [rcur EXCEPT !.gets = @ + 1]
  /\ \E r \in answers[mhost][sregion] :
       /\ rresp' = r
       /\ IF r = Transport THEN \E timeout \in BOOLEAN : SEnd(STransport(timeout))
          ELSE IF r.status = 401 \/ SOutcome(r).raised
          THEN SEnd([SOutcome(r) EXCEPT !.status = "401 - No active session",
                                        !.shown = FALSE,
                                        !.dialog = dialog,
                                        !.tree = IF r.status = 401 THEN tree ELSE @])
          ELSE SEnd(SOutcome(r))
  /\ SQuiet
  /\ SFrame

\* ------------------------------------------------------- behaviours
\* a step of one of the worker threads
WorkerStep ==
  \E w \in Workers :
    \/ W_Host(w)
    \/ W_HostCred(w)
    \/ W_HostAuthCred(w)
    \/ W_HostAuthCall(w)
    \/ W_HostAuthReturn(w)
    \/ W_Get(w)
    \/ W_ReauthCred(w)
    \/ W_ReauthAuthCred(w)
    \/ W_ReauthCall(w)
    \/ W_ReauthReturn(w)
    \/ W_Retry(w)
    \/ W_Return(w)
    \/ W_After(w)

\* the user presses Logon with the Host and Port fields as they are and
\* Consultar total (the latter when no thread of an earlier sweep is left),
\* closes messageboxes or closes the window; the worker thread and the
\* event loop run
LogonNext ==
  \/ ConsultarTodosAlone
  \/ WorkerStep
  \/ ConsultarTodosDone
  \/ DoneDialogClosed
  \/ DialogClosed
  \/ \E typed \in Hosts \cup {"none"}, ported \in BOOLEAN : LoginCall(typed, ported)
  \/ LoginReturn
  \/ Destroy

\* the fields of the form hold user and password (c) or are empty
Fields(c) == user_var = c /\ pass_var = c

\* Completion is followed on one region of the second mapped host, the
\* first one having none; what the region serves does not bear on how the
\* result is handed over.
InitLive ==
  /\ gif_frames \in BOOLEAN
  /\ host_mapping = <<Target("h2", <<>>), Target("h1", <<"r2">>)>>
  /\ Fields(TRUE)
  /\ served = ServedMixed
  /\ answers = AnyAnswer(served)
  /\ FreshSession
  /\ Idle

\* Two sweeps over endpoints with fixed answers, before or after a login for
\* the first host: user and password are filled in, so that the first sweep
\* can change the session store.  The answer of a host that is not mapped,
\* which no request reaches, is left at one value.  With the spinner GIF the
\* program is followed from its start, without it from the state after the
\* first login as well.
InitFixed ==
  /\ gif_frames \in BOOLEAN
  /\ host_mapping \in {<<Target("h1", <<"r1", "r1">>)>>,
                       <<Target("h2", <<"r1">>), Target("h1", <<"r1">>)>>}
  /\ Fields(TRUE)
  /\ served = ServedMixed
  /\ answers \in FixedAnswers(served)
  /\ Len(host_mapping) = 1 => answers["h2"]["r1"] = {Transport}
  /\ FreshSession \/ (LoggedIn /\ ~gif_frames)
  /\ Idle

FixedSpec == InitFixed /\ [][LogonNext]_vars

\* The PCTCnt values whose parsing is examined: null, JSON integers, every
\* text of at most ParseLen characters over ParseChars, and longer texts:
\* 4,818 / 12 345 / abc123xyz / -12.5; 1e2 / -1_2 / -1<CR>, which int() and
\* float() read beyond plain decimals; texts with the white space of
\* str.strip() and int() that is not ASCII and with decimal digits of other
\* scripts; 0.99999999999999999, which float() rounds to 1.0; 1e309, which
\* float() reads as inf.
ParseLen == 3

ParseChars == {"1", "2", ",", " ", "-", ".", "a"}

Text4818 == <<"4", ",", "8", "1", "8">>

Text12345 == <<"1", "2", " ", "3", "4", "5">>

TextAbc123xyz == <<"a", "b", "c", "1", "2", "3", "x", "y", "z">>

TextMinus12p5 == <<"-", "1", "2", ".", "5">>

TextNines == <<"0", ".">> \o [i \in 1..17 |-> "9"]

TextSpaces ==
  {<<"-", "1", CharVT>>, <<CharNBSP, "1">>, <<CharFS, "7">>, <<"-", "2", CharUS>>,
   <<CharNEL, "-", "3">>, <<"1", CharNBSP, "2">>, <<"-", "1", CharGS, "2">>,
   <<CharRS, "-", "1", ".", "5">>}

\* OGHAM SPACE MARK before -3; ARABIC-INDIC 3; ARABIC-INDIC 1 and 2 around
\* a comma; EM SPACE between 1 and 2; 4 between IDEOGRAPHIC SPACE and LINE
\* SEPARATOR; a letter before ARABIC-INDIC 5; FULLWIDTH 1.5; DEVANAGARI -1;
\* FULLWIDTH 7 in Latin letters
TextUnicode ==
  {<<"U+1680", "-", "3">>, <<"U+0663">>, <<"U+0661", ",", "U+0662">>,
   <<"1", "U+2003", "2">>, <<"U+3000", "4", "U+2028">>, <<"a", "U+0665">>,
   <<"U+FF11", ".", "U+FF15">>, <<"-", "U+0967">>, <<"x", "U+FF17", "y">>}

ParseInputs ==
  {RawNone, RawInt(0), RawInt(7), RawInt(-5)}
    \cup {RawStr(s) : s \in UNION {[1..k -> ParseChars] : k \in 0..ParseLen}}
    \cup {RawStr(Text4818), RawStr(Text12345), RawStr(TextAbc123xyz),
          RawStr(TextMinus12p5),
          RawStr(<<"1", "e", "2">>), RawStr(<<"-", "1", "_", "2">>),
          RawStr(<<"-", "1", "\r">>), RawStr(TextNines),
          RawStr(<<"1", "e", "3", "0", "9">>)}
    \cup {RawStr(s) : s \in TextSpaces \cup TextUnicode}

\* One host with one region that serves a single record named A whose
\* PCTCnt is one of the inputs, swept after a login.
InitParse ==
  /\ gif_frames \in BOOLEAN
  /\ host_mapping = <<Target("h1", <<"r1">>)>>
  /\ Fields(FALSE)
  /\ \E raw \in ParseInputs :
       served = [h \in Hosts |-> [r \in Regions |-> <<Rec("A", raw)>>]]
  /\ answers = [h \in Hosts |-> [r \in Regions |->
                  {Response(200, "list", served[h][r])}]]
  /\ LoggedIn
  /\ Idle

\* the sweep and its completion
SweepNext ==
  \/ ConsultarTodosAlone
  \/ \E w \in Workers : W_Host(w) \/ W_Get(w) \/ W_Return(w) \/ W_After(w)
  \/ ConsultarTodosDone
  \/ DoneDialogClosed

ParseSpec == InitParse /\ [][SweepNext]_vars

\* an int of one decimal digit more than str() converts: 4301 ones
IntTooLong == RawBig([i \in 1..(IntMaxStrDigits + 1) |-> "1"])

\* _parse_count is called with one of the inputs, or with that int
InitCount ==
  /\ gif_frames \in BOOLEAN
  /\ host_mapping = <<Target("h1", <<"r1">>)>>
  /\ Fields(FALSE)
  /\ served = ServedMixed
  /\ answers = SingleAnswer(served)
  /\ FreshSession
  /\ MainIdle
  /\ worker = [w \in Workers |-> NoLocals]
  /\ started = 0
  /\ doneCount = 0
  /\ prevResult = NoResult
  /\ cnt_raw \in ParseInputs \cup {IntTooLong}
  /\ parsed = <<>>

\* _parse_count(cnt_raw) returns a value, or an exception leaves it
CallParseCount ==
  /\ parsed = <<>>
  /\ parsed' = <<ParseCountOutcome(cnt_raw)>>
  /\ UNCHANGED <<configVars, fieldVars, storeVars, worker, mainVars, histVars,
                 refreshVars, logoffVars, cnt_raw>>

CountSpec == InitCount /\ [][CallParseCount]_vars

\* the aggregations whose presentation is examined: every map from some
\* (not none) of the names A, B, C to the counts 1, 5, 10
SortMaps ==
  UNION {[S -> {1, 5, 10}] : S \in (SUBSET {"A", "B", "C"}) \ {{}}}

InMap(d) == LET Test(n) == n \in DOMAIN d IN SelectSeq(NameOrder, Test)

\* a PCTs list with one record per entry of d
ListOf(d) == [i \in 1..Len(InMap(d)) |-> Rec(InMap(d)[i], RawInt(d[InMap(d)[i]]))]

\* the result of a sweep over region r1 of host h1 that was served ListOf(d):
\* the counts, being JSON integers, are added up as they are
ResultOf(d) ==
  LET total == SumSeq([i \in 1..Len(InMap(d)) |-> d[InMap(d)[i]]])
  IN [kind |-> "ok", total_sum |-> total, total_calls |-> 1,
      agg_pcts |-> d, agg_by_region |-> [r \in {"r1"} |-> total],
      agg_by_host |-> [h \in {"h1"} |-> total]]

\* the session after a login for the first mapped host and the press of
\* Consultar total that followed it
Pressed ==
  /\ Target3("none", FALSE, "none")
  /\ logged_in = TRUE
  /\ session_cookies = DictSet(EmptyDict, FirstHost, 1)
  /\ session_cookie = 1
  /\ logon_headers = 1
  /\ issuedFor = <<FirstHost>>
  /\ status = BusyStatus("Logon exitoso")

\* The first sweep after a login has ended with an aggregation and its
\* completion is queued for the event loop.
InitSort ==
  /\ gif_frames \in BOOLEAN
  /\ host_mapping = <<Target("h1", <<"r1">>)>>
  /\ Fields(FALSE)
  /\ \E d \in SortMaps :
       /\ served = [h \in Hosts |-> [r \in Regions |-> ListOf(d)]]
       /\ afterQueue = <<ResultOf(d)>>
       /\ prevResult = ResultOf(d)
  /\ answers = [h \in Hosts |-> [r \in Regions |->
                  {Response(200, "list", served[h][r])}]]
  /\ Pressed
  /\ worker = [w \in Workers |-> IF w = 1 THEN Exited ELSE NoLocals]
  /\ busy = TRUE
  /\ alive = TRUE
  /\ mpc = "idle"
  /\ mhost = "none"
  /\ mauth = NoAuth
  /\ modal = 0
  /\ mstatus = "none"
  /\ dialog = "none"
  /\ tree = <<>>
  /\ started = 1
  /\ doneCount = 0
  /\ logins = 0
  /\ NoRefresh
  /\ refreshes = 0
  /\ logoffs = 0
  /\ loggedOff = {}
  /\ NoParse

SortSpec == InitSort /\ [][ConsultarTodosDone]_vars

\* Sweeps, logins and logoffs over one region of the second mapped host,
\* starting with or without an interactive session for the first.
InitSession ==
  /\ gif_frames \in BOOLEAN
  /\ host_mapping = <<Target("h2", <<>>), Target("h1", <<"r2">>)>>
  /\ Fields(TRUE)
  /\ served = ServedMixed
  /\ answers = AnyAnswer(served)
  /\ FreshSession \/ LoggedIn
  /\ Idle

SessionSpec == InitSession /\ [][LogonNext \/ LogoffCall \/ LogoffReturn]_vars

\* Two hosts refreshed from the main thread alone after a login for the
\* first, with each of the user and password fields filled in or empty
\* (a field can be emptied after the login).
InitRefresh ==
  /\ gif_frames \in BOOLEAN
  /\ host_mapping = <<Target("h1", <<"r1">>), Target("h2", <<"r1", "r2">>)>>
  /\ user_var \in BOOLEAN
  /\ pass_var \in BOOLEAN
  /\ served = ServedMixed
  /\ answers = AnyAnswer(served)
  /\ LoggedIn
  /\ Idle

\* the steps of a refresh of all regions after its start
RefreshSteps ==
  \/ R_PreAuthCall
  \/ R_PreAuthReturn
  \/ R_PreLoginCall
  \/ R_PreLoginReturn
  \/ R_PreLoginClosed
  \/ R_Get
  \/ R_ReauthCall
  \/ R_ReauthReturn
  \/ R_Retry
  \/ R_LoginCall
  \/ R_LoginReturn
  \/ R_LoginClosed
  \/ R_Retry2

RefreshNext ==
  \/ \E h \in Hosts \cup {"none"} : R_Start(h)
  \/ RefreshSteps

RefreshSpec == InitRefresh /\ [][RefreshNext \/ DialogClosed]_vars

\* single regions refreshed from the main thread after a login for h1,
\* with user and password still filled in or emptied
InitSingle ==
  /\ gif_frames \in BOOLEAN
  /\ host_mapping = <<Target("h1", <<"r1", "r2">>)>>
  /\ \E c \in BOOLEAN : Fields(c)
  /\ served = ServedMixed
  /\ answers = SingleAnswer(served)
  /\ LoggedIn
  /\ Idle

\* the steps of a refresh of one region after its start
SingleSteps ==
  \/ S_Get
  \/ S_LoginCall
  \/ S_LoginReturn
  \/ S_LoginClosed
  \/ S_Retry

SingleNext ==
  \/ \E h \in Hosts \cup {"none"}, r \in Regions \cup {"none"} : S_Start(h, r)
  \/ SingleSteps

SingleSpec == InitSingle /\ [][SingleNext \/ DialogClosed]_vars

\* Every handler of the window, the worker threads and the event loop.  The
\* mapping editor is bound to no control, so that host_mapping stays as
\* __init__ left it.
Next ==
  \/ ConsultarTodos
  \/ WorkerStep
  \/ ConsultarTodosDone
  \/ DoneDialogClosed
  \/ DialogClosed
  \/ \E typed \in Hosts \cup {"none"}, ported \in BOOLEAN : LoginCall(typed, ported)
  \/ LoginReturn
  \/ \E u, p \in BOOLEAN : EditCredentials(u, p)
  \/ LogoffCall
  \/ LogoffReturn
  \/ ClearTable
  \/ RefreshNext
  \/ SingleNext
  \/ Destroy

Spec == Init /\ [][Next]_vars

\* Logins, sweeps and refreshes of both kinds in any order and side by side,
\* before or after a login for the first mapped host, with the user field
\* filled in and the password field filled in or empty.  The first host has
\* no regions, so that every request goes to the second one, for which a
\* login, a sweep and a refresh each can obtain a token.  With the spinner
\* GIF the program is followed from its start, without it from the state
\* after the first login as well.
InitStore ==
  /\ gif_frames \in BOOLEAN
  /\ host_mapping = <<Target("h2", <<>>), Target("h1", <<"r1">>)>>
  /\ user_var = TRUE
  /\ pass_var \in BOOLEAN
  /\ served = ServedMixed
  /\ answers = StoreAnswer(served)
  /\ FreshSession \/ (LoggedIn /\ ~gif_frames)
  /\ Idle

\* Refresh is pressed with a mapped host in the Host field, for all regions
\* or with the Region field empty
StoreNext ==
  \/ ConsultarTodosAlone
  \/ WorkerStep
  \/ ConsultarTodosDone
  \/ DoneDialogClosed
  \/ DialogClosed
  \/ \E typed \in Hosts \cup {"none"}, ported \in BOOLEAN : LoginCall(typed, ported)
  \/ LoginReturn
  \/ \E h \in Hosts : R_Start(h)
  \/ RefreshSteps
  \/ \E h \in Hosts : S_Start(h, "none")
  \/ SingleSteps

StoreSpec == InitStore /\ [][StoreNext]_vars

\* A sweep is under way and all presses but one are used up; a login has
\* enabled the button again, so that the next press starts a second thread
\* beside the first.  The first mapped host, for which the login was made,
\* has no regions, and the other host has no cookie yet.
InitOverlap ==
  /\ gif_frames \in BOOLEAN
  /\ host_mapping = <<Target("h2", <<>>), Target("h1", <<"r2">>)>>
  /\ Fields(TRUE)
  /\ served = ServedMixed
  /\ answers = AnyAnswer(served)
  /\ LoggedIn
  /\ MainIdle
  /\ NoParse
  /\ worker = [w \in Workers |-> IF w = 1 THEN [NoLocals EXCEPT !.wpc = "host"]
                                 ELSE NoLocals]
  /\ started = MaxPresses - 1
  /\ doneCount = MaxPresses - 2
  /\ prevResult = NoResult

OverlapNext ==
  \/ ConsultarTodos
  \/ WorkerStep
  \/ ConsultarTodosDone
  \/ DoneDialogClosed
  \/ Destroy

OverlapSpec == InitOverlap /\ [][OverlapNext]_vars

\* Sweeps with and without credentials; without them the store may hold the
\* token of a login made before the user and password fields were emptied.
InitAnon ==
  /\ gif_frames \in BOOLEAN
  /\ host_mapping \in {<<Target("h1", <<"r1", "r1">>)>>,
                       <<Target("h2", <<"r1">>), Target("h1", <<"r1">>)>>}
  /\ user_var \in BOOLEAN
  /\ pass_var \in BOOLEAN
  /\ FreshSession \/ (~credentials /\ LoggedIn)
  /\ served = ServedMixed
  /\ answers = AnyAnswer(served)
  /\ Idle

AnonSpec == InitAnon /\ [][LogonNext]_vars

\* every configuration and both data sets, after a login that enabled the
\* button of the sweep
InitData ==
  /\ gif_frames \in BOOLEAN
  /\ \E cfg \in Configs : host_mapping = cfg.mapping /\ Fields(cfg.creds)
  /\ served \in ServerData
  /\ answers = AnyAnswer(served)
  /\ LoggedIn
  /\ Idle

\* swept again and again with no login pressed in between
DataNext ==
  \/ ConsultarTodosAlone
  \/ WorkerStep
  \/ ConsultarTodosDone
  \/ DoneDialogClosed

DataSpec == InitData /\ [][DataNext]_vars

\* the session of every request has expired or the request times out, the
\* first one of a pair or its retry
ExpiringAnswer ==
  [h \in Hosts |-> [r \in Regions |-> {Response(401, "notjson", <<>>), Transport}]]

\* endpoints that answer every request the same way, or one host whose
\* requests are answered 401 or time out
InitTerm ==
  \/ InitFixed
  \/ /\ gif_frames \in BOOLEAN
     /\ host_mapping = <<Target("h1", <<"r1", "r2">>)>>
     /\ Fields(TRUE)
     /\ served = ServedMixed
     /\ answers = ExpiringAnswer
     /\ LoggedIn
     /\ Idle

\* sweeps alone; the worker thread is scheduled as long as it runs (weak
\* fairness of WorkerStep, with its enabling condition written out as
\* WorkerRuns)
TermSpec ==
  /\ InitTerm
  /\ [][DataNext]_vars
  /\ (<>[]WorkerRuns => []<><<WorkerStep>>_vars)

\* one host with two different regions, or two hosts, read with credentials,
\* before or after a login for the first host; with the spinner GIF from
\* the start of the program only
InitOrder ==
  /\ gif_frames \in BOOLEAN
  /\ host_mapping \in {<<Target("h1", <<"r1", "r2">>)>>,
                       <<Target("h2", <<"r1">>), Target("h1", <<"r1">>)>>}
  /\ Fields(TRUE)
  /\ served = ServedMixed
  /\ answers = CoreAnswer(served)
  /\ FreshSession \/ (LoggedIn /\ ~gif_frames)
  /\ Idle

OrderSpec == InitOrder /\ [][LogonNext]_vars

\* The worker threads run whenever they can, which ends with the window;
\* the event loop runs a queued callback and a login returns once
\* microfocus_logon has answered.
LiveSpec ==
  /\ InitLive
  /\ [][LogonNext]_vars
  /\ WF_vars(WorkerStep)
  /\ WF_vars(ConsultarTodosDone)
  /\ WF_vars(LoginReturn)


\* ======================================================= claims
RECURSIVE AllPairs(_)
\* the (host, region) pairs of a mapping, in configured order
AllPairs(m) ==
  IF m = <<>> THEN <<>>
  ELSE [i \in 1..Len(Head(m).regions) |-> <<Head(m).host, Head(m).regions[i]>>]
         \o AllPairs(Tail(m))

PairOf(v) == <<v.host, v.region>>

\* the pairs handled so far by the sweep of a worker with locals l, in order
VisitedPairs(l) == [i \in 1..Len(l.visited) |-> PairOf(l.visited[i])]

IsFailed(v) == v.got = "failed"

\* those of them whose outcome was not Success
FailedPairs(l) ==
  LET f == SelectSeq(l.visited, IsFailed) IN [i \in 1..Len(f) |-> PairOf(f[i])]

\* the worker has its result and has not yet handed it over
ResultReady(l) == l.wpc = "after"

ResultOk(l) == ResultReady(l) /\ l.result.kind = "ok"

\* result.get('failedRegions', [])
FailedRegionsOf(r) == IF "failedRegions" \in DOMAIN r THEN r.failedRegions ELSE <<>>

Names == {NameOrder[i] : i \in 1..Len(NameOrder)}

\* the sum of the parsed counts of the records of data named n
NamedCount(data, n) ==
  SumSeq([j \in 1..Len(data) |->
            IF data[j].dict /\ data[j].PCTName = n
            THEN ParseCount(CntOrZero(data[j])) ELSE 0])

\* ... over the pairs of the sweep that answered with their data
ExpectedFor(l, n) ==
  SumSeq([i \in 1..Len(l.visited) |->
            IF l.visited[i].got = "data"
            THEN NamedCount(served[l.visited[i].host][l.visited[i].region], n) ELSE 0])

\* ... and over every name
ExpectedTotal(l) == SumSeq([i \in 1..Len(NameOrder) |-> ExpectedFor(l, NameOrder[i])])

\* C1 (as claimed): whatever the outcome of each pair, every configured pair
\* is fetched and the worker ends with an aggregation result, not an error.
C1_FailureIsolation ==
  \A w \in Workers :
    ResultReady(worker[w]) =>
      /\ worker[w].result.kind = "ok"
      /\ VisitedPairs(worker[w]) = AllPairs(host_mapping)

\* C2 (as claimed): the result of a completed sweep carries failedRegions,
\* holding in configured order exactly the pairs whose fetch failed.
C2_FailedRegionsReported ==
  \A w \in Workers :
    ResultOk(worker[w]) => FailedRegionsOf(worker[w].result) = FailedPairs(worker[w])

\* the sums of a result agree
SumsAgree(r) ==
  /\ r.total_sum = SumDict(r.agg_pcts)
  /\ r.total_sum = SumDict(r.agg_by_region)
  /\ r.total_sum = SumDict(r.agg_by_host)

\* C3: in the result of the sweep total_sum equals the sum of agg_pcts, of
\* agg_by_region and of agg_by_host.
C3_SumsAgree ==
  \A w \in Workers : ResultOk(worker[w]) => SumsAgree(worker[w].result)

\* two hosts that share a region name both contributed
C3_Witness ==
  \E w \in Workers :
    /\ ResultOk(worker[w])
    /\ DOMAIN worker[w].result.agg_by_region = {"r1"}
    /\ DOMAIN worker[w].result.agg_by_host = {"h1", "h2"}
    /\ worker[w].result.agg_by_host["h1"] > 0
    /\ worker[w].result.agg_by_host["h2"] > 0

\* the result of the sweep with locals l is the sum over the pairs that
\* answered with data
SumOfSucceeded(l) ==
  /\ DOMAIN l.result.agg_pcts \subseteq Names
  /\ \A n \in Names : DictGet(l.result.agg_pcts, n, 0) = ExpectedFor(l, n)
  /\ l.result.total_sum = ExpectedTotal(l)

\* C4: total_sum is the sum of the parsed counts of the named records of the
\* pairs that answered with data, and agg_pcts[name] that sum per name;
\* failed pairs contribute nothing.
C4_SumOfSucceeded ==
  \A w \in Workers : ResultOk(worker[w]) => SumOfSucceeded(worker[w])

\* two hosts, two regions each, PCT1 with 10, 20, 30, 40
C4_Witness ==
  \E w \in Workers :
    /\ ResultOk(worker[w])
    /\ host_mapping = Mapping2x2
    /\ served = ServedE2E
    /\ worker[w].result.total_sum = 100
    /\ worker[w].result.agg_pcts = [n \in {"PCT1"} |-> 100]
    /\ worker[w].result.total_calls = 4
    /\ FailedPairs(worker[w]) = <<>>

\* the handling of the current pair of the sweep with locals l has ended
PairOver(l) == l.cur.final \notin {"none", "pending"}

\* the positions of a worker between the 401 to the first request of a pair
\* and the end of the pair
ReauthPositions ==
  {"reauth_user", "reauth_pass", "reauth_auth_user", "reauth_auth_pass",
   "reauth", "reauth_ret", "retry"}

\* at most two requests and one authenticator call for the current pair;
\* after a cookie was given there were two requests, and a 401 to the second
\* ends the pair as failed
AtMostOneReauth(l) ==
  /\ l.cur.gets <= 2
  /\ l.cur.auths <= 1
  /\ (PairOver(l) /\ l.cur.authOk) => l.cur.gets = 2
  /\ (PairOver(l) /\ l.cur.authOk /\ l.cur.final = "Unauthorized") =>
       /\ l.cur.gets = 2
       /\ l.cur.auths = 1
       /\ IsFailed(l.visited[Len(l.visited)])
       /\ l.wpc \notin ReauthPositions

\* C5: a pair makes at most two requests and one authenticator call; with
\* credentials a first 401 is followed by exactly one authenticator call,
\* and when that call gave a cookie and the retry is a 401 again the pair
\* has made exactly two requests, is failed and its handling is over.
C5_BoundedReauth ==
  \A w \in Workers :
    /\ AtMostOneReauth(worker[w])
    /\ (PairOver(worker[w]) /\ worker[w].cur.first = 401 /\ credentials) =>
         worker[w].cur.auths = 1

\* the pair answered 401 twice and the next pair is about to be fetched
C5_Witness ==
  \E w \in Workers :
    /\ worker[w].cur.final = "Unauthorized"
    /\ worker[w].cur.authOk
    /\ worker[w].cur.gets = 2
    /\ worker[w].cur.auths = 1
    /\ worker[w].wpc = "get"
    /\ worker[w].ri = 2

\* C6 (as claimed): _consultar_todos_done never runs more often than
\* worker threads were started, and when the program ends it has run once
\* for each of them - never zero.
C6_ExactlyOneCompletion ==
  /\ doneCount <= started
  /\ ~alive => doneCount = started

\* C6 (amended): never more completions than workers started; a worker that
\* has ended has its completion queued or run; and every started worker
\* leads to its _consultar_todos_done unless the window is closed first,
\* which ends the program.
C6_OneCompletionWhileWindowLives ==
  /\ [](doneCount + Len(afterQueue) <= started)
  /\ [](~WorkerRuns => doneCount + Len(afterQueue) = started)
  /\ \A n \in 1..MaxPresses : (started = n) ~> (doneCount = n \/ ~alive)

\* the sweep found no count, _consultar_todos_done told so in its
\* messagebox, and the button was enabled again when that was closed
C6_Witness ==
  /\ doneCount = 1
  /\ started = 1
  /\ dialog \in {"Error", "Resultados"}
  /\ modal = 0
  /\ ~busy
  /\ ~WorkerRuns

\* C7 (as claimed): the token stored for a host is never replaced by one
\* that was issued earlier.
C7_NoStaleOverwrite ==
  [][\A h \in DOMAIN session_cookies :
       h \in DOMAIN session_cookies' /\ session_cookies'[h] >= session_cookies[h]]_vars

StoreWellFormed(s, iss) ==
  /\ DOMAIN s \subseteq Hosts
  /\ \A h \in DOMAIN s : s[h] \in 1..Len(iss) /\ iss[s[h]] = h

\* the store after token tok was stored for host h
Replaced(h, tok) ==
  /\ DOMAIN session_cookies' = DOMAIN session_cookies \cup {h}
  /\ session_cookies'[h] = tok
  /\ \A g \in DOMAIN session_cookies \ {h} : session_cookies'[g] = session_cookies[g]

\* _get_session_cookie_for_host returns in worker w from a microfocus_logon
\* that gave a cookie
WorkerAuthOk(w) == worker[w].wauth.kind = "ok" /\ worker'[w].wauth = NoAuth

\* ... and in the main thread
MainAuthOk == mauth.kind = "ok" /\ mauth' = NoAuth

\* C8: the store maps each host to at most one token, one issued for that
\* host; a successful authentication for H - of a sweep, of login or of a
\* refresh - leaves exactly its token under H and the other hosts' tokens
\* unchanged; nothing else changes the store.
C8_OneTokenPerHost ==
  [][/\ StoreWellFormed(session_cookies', issuedFor')
     /\ \A w \in Workers :
          WorkerAuthOk(w) => Replaced(CurHost(worker[w]), worker[w].wauth.tok)
     /\ MainAuthOk => Replaced(mhost, mauth.tok)
     /\ session_cookies' # session_cookies =>
          \E h \in Hosts, tok \in 1..Len(issuedFor') :
            /\ issuedFor'[tok] = h
            /\ Replaced(h, tok)
            /\ \/ \E w \in Workers :
                    WorkerAuthOk(w) /\ h = CurHost(worker[w]) /\ tok = worker[w].wauth.tok
               \/ MainAuthOk /\ h = mhost /\ tok = mauth.tok]_vars

\* h1's token was replaced by the one a refresh obtained after a 401, h2's
\* token, which a login had stored, is untouched
C8_Witness ==
  /\ issuedFor = <<"h2", "h1", "h1">>
  /\ DOMAIN session_cookies = {"h1", "h2"}
  /\ session_cookies["h1"] = 3
  /\ session_cookies["h2"] = 1
  /\ rpass.host = "h1"
  /\ rpass.renewed = 3

\* every fetch of the sweep with locals l failed
AllFailed(l) == l.visited # <<>> /\ \A i \in 1..Len(l.visited) : IsFailed(l.visited[i])

\* C9 (as claimed): when every fetch of the sweep failed the result has
\* total_sum 0, empty aggregates and a non-empty failedRegions.
C9_AllFailedReported ==
  \A w \in Workers :
    (ResultOk(worker[w]) /\ AllFailed(worker[w])) =>
      /\ worker[w].result.total_sum = 0
      /\ worker[w].result.agg_pcts = EmptyDict
      /\ worker[w].result.agg_by_region = EmptyDict
      /\ worker[w].result.agg_by_host = EmptyDict
      /\ FailedRegionsOf(worker[w].result) # <<>>

\* the pairs of the sweep with locals l whose final exchange, and whose
\* first request, produced an HTTP response
FinalHttp(l) == {i \in 1..Len(l.visited) : l.visited[i].finalHttp}

FirstHttp(l) == {i \in 1..Len(l.visited) : l.visited[i].firstHttp}

\* C10 (as claimed): total_calls counts the pairs whose final exchange
\* produced an HTTP response.
C10_CountsFinalExchanges ==
  \A w \in Workers :
    ResultOk(worker[w]) => worker[w].result.total_calls = Cardinality(FinalHttp(worker[w]))

\* C10 (amended): total_calls counts the pairs whose first request produced
\* an HTTP response; a retried pair adds one whatever the retry gave, and
\* when no pair failed total_calls is the number of pairs.
C10_CountsFirstExchanges ==
  \A w \in Workers :
    ResultOk(worker[w]) =>
      /\ worker[w].result.total_calls = Cardinality(FirstHttp(worker[w]))
      /\ FailedPairs(worker[w]) = <<>> =>
           worker[w].result.total_calls = Len(AllPairs(host_mapping))

\* a pair whose retry ended in a transport failure was counted once
C10_Witness ==
  \E w \in Workers :
    /\ ResultOk(worker[w])
    /\ FirstHttp(worker[w]) # FinalHttp(worker[w])
    /\ worker[w].result.total_calls = Len(worker[w].visited)

\* C11: no step of a worker thread, its non-interactive authenticator
\* calls included, shows a messagebox, writes the status text, changes the
\* table rows or writes logon_headers and session_cookie.
C11_WorkerLeavesGuiAlone ==
  [][WorkerStep => UNCHANGED <<dialog, status, tree, logon_headers, session_cookie>>]_vars

\* two worker threads run side by side; one of them authenticated for h1 and
\* stored its own cookie, and the GUI and the interactive session fields are
\* as the login left them
C11_Witness ==
  /\ \A w \in Workers : Running(w)
  /\ \E w \in Workers :
       /\ worker[w].wpc = "get"
       /\ worker[w].cookie_val # NoToken
       /\ worker[w].cookie_val # session_cookie
       /\ session_cookies["h1"] = worker[w].cookie_val
  /\ dialog = "none"
  /\ status = "Logon exitoso"
  /\ logon_headers = 1
  /\ session_cookie = 1

\* C12: when every endpoint has one fixed answer, the result of a sweep
\* equals, field for field, the result of the sweep before it.
C12_Idempotent ==
  \A w \in Workers :
    (ResultReady(worker[w]) /\ started >= 2) => worker[w].result = prevResult

\* the second sweep found a token the first sweep had to obtain, both
\* aggregated data, and the results are equal
C12_Witness ==
  \E w \in Workers :
    /\ ResultOk(worker[w])
    /\ started = 2
    /\ worker[w].result = prevResult
    /\ worker[w].result.total_sum > 0
    /\ Len(issuedFor) = Len(host_mapping)
    /\ \A i \in 1..Len(host_mapping) : host_mapping[i].host \in DOMAIN session_cookies

\* the positions of a worker inside _get_session_cookie_for_host and at the
\* request that follows a cookie it gave
AuthPositions ==
  {"host_auth_user", "host_auth_pass", "host_auth", "host_auth_ret",
   "reauth_auth_user", "reauth_auth_pass", "reauth", "reauth_ret", "retry"}

\* the sweep with locals l has called no authenticator and sent no second
\* request; its request carried the stored cookie; a 401 ended the pair
Anonymous(l) ==
  /\ l.wpc \notin AuthPositions
  /\ l.wauth = NoAuth
  /\ l.cur.gets <= 1
  /\ l.cur.auths = 0
  /\ l.lastReq # NoRequest =>
       l.lastReq.cookie = DictGet(session_cookies, l.lastReq.host, NoToken)
  /\ (PairOver(l) /\ l.cur.first = 401) =>
       /\ l.cur.final = "Unauthorized"
       /\ IsFailed(l.visited[Len(l.visited)])
  /\ ResultReady(l) => VisitedPairs(l) = AllPairs(host_mapping)

\* C13 (as claimed): without credentials the sweep calls no authenticator:
\* no pair makes a second request, every request carries the cookie stored
\* for its host and none when there is none, a 401 ends the pair as failed
\* at once, and a sweep that has ended has fetched every configured pair
\* once, in order.
C13_AnonymousSweep ==
  ~credentials => \A w \in Workers : Anonymous(worker[w])

\* the authenticator call of worker w in flight failed and the worker resumes
WorkerAuthFailed(w) ==
  /\ worker[w].wauth.kind \in {"empty", "exit", "error"}
  /\ worker'[w].wauth = NoAuth

\* after the failed call made for a host its regions are fetched without a
\* token (l, m: the locals before and after)
HostGoesOn(l, m) ==
  /\ m.wpc = "get"
  /\ m.cookie_val = NoToken
  /\ m.hi = l.hi

\* after the failed call made on a 401 the pair ends as failed and the next
\* pair or host follows
PairGivenUp(l, m) ==
  /\ m.wpc \in {"get", "host"}
  /\ m.cookie_val = l.cookie_val
  /\ Len(m.visited) = Len(l.visited) + 1
  /\ IsFailed(m.visited[Len(m.visited)])
  /\ (m.wpc = "get" => m.hi = l.hi /\ m.ri = l.ri + 1)
  /\ (m.wpc = "host" => m.hi = l.hi + 1)

\* C14 (as claimed): when an authenticator call of the sweep raises, exits
\* or gives no cookie the worker goes on: after the call made for a host its
\* regions are fetched without a token, after the call made on a 401 the
\* pair ends as failed and the next pair or host follows; the store is left
\* as it was; and the sweep ends with an aggregation result, not an error,
\* having handled every configured pair.
C14_AuthFailureIsNoToken ==
  /\ [](\A w \in Workers :
          (ResultReady(worker[w]) /\ worker[w].authFailed) =>
            /\ worker[w].result.kind = "ok"
            /\ VisitedPairs(worker[w]) = AllPairs(host_mapping))
  /\ [][\A w \in Workers :
          WorkerAuthFailed(w) =>
            /\ worker'[w].result = worker[w].result
            /\ session_cookies' = session_cookies
            /\ worker[w].wpc = "host_auth_ret" => HostGoesOn(worker[w], worker'[w])
            /\ worker[w].wpc = "reauth_ret" => PairGivenUp(worker[w], worker'[w])]_vars

\* worker w sends a request, the first one of a pair or its retry: the step
\* W_Get or W_Retry, the only ones the thread takes from these positions
RequestStep(w) == worker[w].wpc \in {"get", "retry"} /\ worker'[w] # worker[w]

\* the pair of a request
Asked(req) == <<req.host, req.region>>

\* the pairs the sweep with locals l has ended are an initial part of the
\* configured pairs; between the 401 and the end of a pair one request was
\* sent, for the first pair not yet ended
InOrder(l) ==
  /\ Len(l.visited) <= Len(AllPairs(host_mapping))
  /\ \A i \in 1..Len(l.visited) : VisitedPairs(l)[i] = AllPairs(host_mapping)[i]
  /\ l.wpc \in ReauthPositions =>
       /\ l.cur.gets = 1
       /\ Asked(l.lastReq) = <<CurHost(l), CurRegion(l)>>
       /\ <<CurHost(l), CurRegion(l)>> = AllPairs(host_mapping)[Len(l.visited) + 1]

\* the request sent in a step from locals l to locals m is for the first
\* pair not yet ended, and a retry is for the pair of the request before
NextPairAsked(l, m) ==
  /\ Len(l.visited) < Len(AllPairs(host_mapping))
  /\ Asked(m.lastReq) = AllPairs(host_mapping)[Len(l.visited) + 1]
  /\ l.wpc = "retry" => Asked(m.lastReq) = Asked(l.lastReq)
  /\ l.wpc = "get" => m.cur.gets = 1

\* C15: the pairs whose handling ended are an initial part of the configured
\* pairs, in order; every request is for the first pair not yet ended; a
\* retry follows the first request of the same pair; and while a pair is
\* re-authenticating or retrying no other pair has been started.
C15_SequentialInOrder ==
  /\ [](\A w \in Workers : InOrder(worker[w]))
  /\ [][\A w \in Workers :
          RequestStep(w) => NextPairAsked(worker[w], worker'[w])]_vars

\* the second host's pair was retried after the first host's pair had ended
C15_Witness ==
  \E w \in Workers :
    /\ Len(host_mapping) = 2
    /\ Len(worker[w].visited) = 2
    /\ worker[w].visited[1].host # worker[w].visited[2].host
    /\ worker[w].cur.gets = 2
    /\ Asked(worker[w].lastReq) = AllPairs(host_mapping)[2]
    /\ worker[w].wpc = "host"

\* the aggregation A:5, B:10, C:5
ExampleABC == [n \in {"A", "B", "C"} |-> IF n = "B" THEN 10 ELSE 5]

\* C16: the rows shown for an aggregation are its entries, one row each,
\* every row before the rows of smaller count and, among equal counts,
\* before the rows of greater name; A:5, B:10, C:5 is shown as B, A, C.
C16_RowsOrdered ==
  (doneCount = 1 /\ prevResult.total_sum # 0) =>
    LET d == prevResult.agg_pcts
    IN /\ Len(tree) = Cardinality(DOMAIN d)
       /\ \A i \in 1..Len(tree) : tree[i][1] \in DOMAIN d /\ tree[i][2] = d[tree[i][1]]
       /\ \A i \in 1..Len(tree) : \A j \in (i + 1)..Len(tree) :
            \/ tree[i][2] > tree[j][2]
            \/ (tree[i][2] = tree[j][2] /\ NameRank(tree[i][1]) < NameRank(tree[j][1]))
       /\ d = ExampleABC => tree = << <<"B", 10>>, <<"A", 5>>, <<"C", 5>> >>

\* the example was shown
C16_Witness ==
  /\ doneCount = 1
  /\ prevResult.agg_pcts = ExampleABC
  /\ tree = << <<"B", 10>>, <<"A", 5>>, <<"C", 5>> >>
  /\ status = "Consultar todos"

\* the PCTCnt value served, and the count the sweep with locals l made of it
ServedRaw == served["h1"]["r1"][1].PCTCnt

Counted(l) == l.result.agg_pcts["A"]

IsBlank(raw) == raw.t = "str" /\ \A i \in 1..Len(raw.s) : IsSpace(raw.s[i])

\* digits grouped by commas and whitespace, with at least one digit
IsGrouped(raw) ==
  /\ raw.t = "str"
  /\ \E i \in 1..Len(raw.s) : IsDigit(raw.s[i])
  /\ \A i \in 1..Len(raw.s) : IsDigit(raw.s[i]) \/ raw.s[i] = "," \/ IsSpace(raw.s[i])

\* the call _parse_count(raw) ended as o says and as it is said to end: it
\* returned; 0 for null and blank text; for grouped digits the value of the
\* digits
ParsedAsSaid(raw, o) ==
  /\ ~o.raised
  /\ (raw = RawNone \/ IsBlank(raw)) => o.value = 0
  /\ IsGrouped(raw) => o.value = DigitsValue(KeepDigits(raw.s))
  /\ raw = RawStr(Text4818) => o.value = 4818
  /\ raw = RawStr(Text12345) => o.value = 12345
  /\ raw = RawStr(TextAbc123xyz) => o.value = 123

\* C17 (as claimed): whatever its argument is, a call of _parse_count
\* returns and does not raise; it returns 0 for null and for empty or blank
\* text, the value of the digits for digits grouped by commas and
\* whitespace, 4818 for 4,818, 12345 for 12 345 and 123 for abc123xyz.
C17_ParseCountTotal ==
  parsed # <<>> => ParsedAsSaid(cnt_raw, parsed[1])

\* C18 (as claimed): every count, and so every total, is at least 0.
C18_NonNegative ==
  \A w \in Workers :
    ResultOk(worker[w]) => (Counted(worker[w]) >= 0 /\ worker[w].result.total_sum >= 0)

\* C19 (as claimed): a token that a successful logoff has ended is not in
\* the session store any more and is not sent with any later request.
C19_LogoffClearsStore ==
  /\ \A h \in DOMAIN session_cookies : session_cookies[h] \notin loggedOff
  /\ lastReq.cookie \notin loggedOff
  /\ \A w \in Workers : worker[w].lastReq.cookie \notin loggedOff

\* C20 (as claimed): a region of refresh 'All' that answers 401 is
\* re-authenticated once, without interaction, and requested once more: no
\* region sees more than two requests or more than one authentication
C20_TwoRequestsOneAuth == rcur.gets <= 2 /\ rcur.auths <= 1

\* the regions of the latest refresh with region 'All'
PassRegions == RegionsOf(rpass.host)

\* region r is listed in failed_regions
ListedFailed(r) == \E k \in 1..Len(failed_regions) : failed_regions[k] = r

\* C21 (as claimed): when the loop over the regions of refresh 'All' has
\* ended, every region that gave no usable data (no entry in region_counts)
\* is contained in failed_regions
C21_FailuresListed ==
  rpass.phase = "ended" =>
    \A i \in 1..Len(PassRegions) :
      PassRegions[i] \notin DOMAIN racc.region_counts => ListedFailed(PassRegions[i])

\* a step of refresh 'All' that sends a request
RefreshRequestStep == mpc \in {"r_get", "r_retry", "r_retry2"}

\* C22 (as claimed, for refresh 'All'): once a logon after a 401 was given
\* a token in this pass, every request of the pass carries that token
C22_RenewedTokenSent ==
  [][(RefreshRequestStep /\ rpass.renewed # NoToken) => lastReq'.cookie = rpass.renewed]_vars

\* a step of the refresh of one region that sends a request
SingleRequestStep == mpc \in {"s_get", "s_retry"}

\* C23 (as claimed, for the refresh of one region): a request that carries
\* a cookie to host H carries a token the authenticator issued for H, and
\* that token is the one stored for H when the request is sent
C23_OwnTokenSent ==
  [][(SingleRequestStep /\ lastReq'.cookie # NoToken) =>
       /\ issuedFor[lastReq'.cookie] = lastReq'.host
       /\ DictGet(session_cookies, lastReq'.host, NoToken) = lastReq'.cookie]_vars

\* the counts refresh 'All' would hold for region r had it dropped the
\* unnamed records of the list the region serves
NamedSum(pcts) == FoldPcts(pcts, [agg_pcts |-> EmptyDict, total_sum |-> 0,
                                  region_sum |-> 0]).region_sum

\* C24 (as claimed, for refresh 'All'): a record without a name adds
\* nothing: no row is kept under the empty name, and the sum of a region
\* is the sum of its named records
C24_UnnamedDropped ==
  /\ "" \notin DOMAIN racc.agg_pcts
  /\ \A r \in DOMAIN racc.region_counts :
       racc.region_counts[r] \in {0, NamedSum(served[rpass.host][r])}

\* s[i..j] is a contiguous run of digits that cannot be extended
IsDigitRun(s, i, j) ==
  /\ i <= j
  /\ \A x \in i..j : IsDigit(s[x])
  /\ i = 1 \/ ~IsDigit(s[i - 1])
  /\ j = Len(s) \/ ~IsDigit(s[j + 1])

\* the values of the longest runs of digits of s; {0} when s has no digit
LongestRunValues(s) ==
  LET runs == {p \in (1..Len(s)) \X (1..Len(s)) : IsDigitRun(s, p[1], p[2])}
      longest == {p \in runs : \A q \in runs : q[2] - q[1] <= p[2] - p[1]}
  IN IF runs = {} THEN {0}
     ELSE {DigitsValue(SubSeq(s, p[1], p[2])) : p \in longest}

\* text that is neither blank nor an integer nor a decimal number once the
\* separators are removed
Unparseable(raw) ==
  /\ raw.t = "str"
  /\ Strip(raw.s) # <<>>
  /\ ~IntParses(RemoveSeparators(Strip(raw.s)))
  /\ ~FloatParses(RemoveSeparators(Strip(raw.s)))

\* C25 (as claimed): for text that is no number the count is the value of
\* a longest contiguous run of digits, 0 when there is no digit
C25_LongestRun ==
  \A w \in Workers :
    (ResultOk(worker[w]) /\ Unparseable(ServedRaw)) =>
      Counted(worker[w]) \in LongestRunValues(ServedRaw.s)

\* a refresh of one region has ended and rresp is the last answer it got
SingleAnswered == mpc = "idle" /\ rresp # NoResponse /\ rresp # Transport

\* the status texts refresh sets for a 404
Status404 == {"404 - ErrorTitle", "404 - HTTP 404", "404 - Not Found"}

\* C26 (as claimed): the refresh of one region reports 401 and 404 as
\* such, every other status outside 200..299 as an HTTP error whatever the
\* body is, and a JSON decode error only for a 2xx answer
C26_StatusFirst ==
  SingleAnswered =>
    /\ rresp.status = 401 => status = "401 - No active session"
    /\ rresp.status = 404 => status \in Status404
    /\ (rresp.status \notin {401, 404} /\ (rresp.status < 200 \/ rresp.status >= 300))
         => status = "Error"
    /\ status = "JSON decode error" => (rresp.status >= 200 /\ rresp.status < 300)

\* C27: a refresh of one region sends at most two requests and logs in at
\* most once; the second request is sent only after the one login that
\* followed the 401 to the first; and when the last answer was 401 (then
\* every answer was) the refresh ends with the status of the 401.
C27_SingleRetryBounded ==
  /\ rcur.gets <= 2
  /\ rcur.auths <= 1
  /\ mpc = "s_login" => (rcur.gets = 1 /\ rcur.auths = 0 /\ rresp.status = 401)
  /\ mpc \in {"s_login_ret", "s_login_dlg", "s_retry"} =>
       (rcur.gets = 1 /\ rcur.auths = 1)
  /\ (mpc = "idle" /\ rresp.status = 401) => status = "401 - No active session"

\* both requests were answered 401, with one login between them
C27_Witness ==
  /\ mpc = "idle"
  /\ rresp.status = 401
  /\ rcur = [gets |-> 2, auths |-> 1]
  /\ status = "401 - No active session"

\* a request of worker w ended its pair without an HTTP answer
RequestTimedOut(w) ==
  /\ RequestStep(w)
  /\ Len(worker'[w].visited) = Len(worker[w].visited) + 1
  /\ ~worker'[w].visited[Len(worker'[w].visited)].finalHttp

\* the sweep goes on with the next region or the next host, without a result
\* (l, m: the locals before and after)
GoesOn(l, m) ==
  /\ m.result = l.result
  /\ \/ (m.wpc = "get" /\ m.hi = l.hi /\ m.ri = l.ri + 1)
     \/ (m.wpc = "host" /\ m.hi = l.hi + 1)

\* the requests and authenticator calls of the sweep with locals l are
\* within their bounds
CallsBounded(l) ==
  /\ l.sweepCalls.gets <= 2 * Len(AllPairs(host_mapping))
  /\ l.sweepCalls.auths <= Len(host_mapping) + Len(AllPairs(host_mapping))

\* C28: a sweep over the H hosts and N pairs of the mapping sends at most
\* 2N requests and calls the authenticator at most H + N times; a request
\* that times out ends its pair only, and the sweep goes on with the next
\* region or the next host; and every sweep that was started ends.
C28_SweepTerminates ==
  /\ [](Deterministic => \A w \in Workers : CallsBounded(worker[w]))
  /\ [][\A w \in Workers :
          RequestTimedOut(w) => GoesOn(worker[w], worker'[w])]_vars
  /\ \A n \in 1..MaxPresses : (started = n) ~> (started = n /\ ~WorkerRuns)

\* a sweep over two pairs ended after 2N requests, an authenticator call for
\* the host that had no cookie and one for each pair
C28_Witness ==
  \E w \in Workers :
    /\ ResultReady(worker[w])
    /\ Len(AllPairs(host_mapping)) = 2
    /\ worker[w].sweepCalls.gets = 2 * Len(AllPairs(host_mapping))
    /\ worker[w].sweepCalls.auths = 1 + Len(AllPairs(host_mapping))

\* _get_session_cookie_for_host returns from a microfocus_logon that gave no
\* cookie: in login (interactive) or in the sweep (not interactive)
FailedLogonReturns ==
  \/ (mpc = "login_ret" /\ mauth.kind \in {"empty", "exit", "error"} /\ mauth' = NoAuth)
  \/ \E w \in Workers :
       worker[w].wpc \in {"host_auth_ret", "reauth_ret"} /\ WorkerAuthFailed(w)

\* C29 (as claimed): a logon that raises, exits or returns no cookie leaves
\* session_cookies, session_cookie and logon_headers as they were.
C29_FailedLogonKeepsSession ==
  [][FailedLogonReturns =>
       /\ session_cookies' = session_cookies
       /\ session_cookie' = session_cookie
       /\ logon_headers' = logon_headers]_vars

\* the status texts of a refresh of one region that shows no records
NoRecordsStatus ==
  Status404 \cup {"401 - No active session", "Error", "JSON decode error", "No data",
                  "Timeout", "Request error"}

\* the refresh of one region ends with one of these texts, set at once or
\* when its messagebox is closed
SingleFails ==
  /\ mpc \in {"s_get", "s_login_ret", "s_login_dlg", "s_retry"}
  /\ \/ (mpc' = "idle" /\ status' \in NoRecordsStatus)
     \/ (mpc' = "dlg" /\ mstatus' \in NoRecordsStatus)

\* C30 (as claimed): a refresh of one region that shows no records leaves
\* the rows of the table as they were.
C30_FailureKeepsRows ==
  [][SingleFails => tree' = tree]_vars

====
